---- MODULE Spec2Model ----
(***************************************************************************)
(* Verification model of omc3:                                             *)
(*   - correction/handler.py      : correct() and its helpers, and         *)
(*                                  _get_measurment_data step by step      *)
(*   - tune_analysis/bbq_tools.py : get_moving_average() and its helpers   *)
(*   - kmod/kmod_analysis.py      : return_sign_for_err, return_df,        *)
(*                                  get_beta_waist, calc_betastar,         *)
(*                                  calc_beta_inst, calc_tune, calc_k,     *)
(*                                  return_fit_input, chi2                 *)
(*   - optics_measurements/beta_from_phase.py : calculate(),               *)
(*                                  _assign_uncertainties, n_bpm_method,   *)
(*                                  _covariant_weighting,                  *)
(*                                  three_bpm_method, _tilt_slice_matrix   *)
(* Each function is a state machine of its own with its own specification *)
(* (Spec, SpecMeas, SpecMav, SpecKmod, SpecBeta, SpecNbpm, SpecFit,        *)
(* SpecChi, SpecUnc, SpecTilt); the variables of the others stay idle.     *)
(***************************************************************************)
EXTENDS Integers, Sequences, FiniteSets, TLC

(***************************************************************************)
(* Bounds of the model                                                     *)
(***************************************************************************)
NumCorrectors == 2      \* longest variable list the accelerator returns
MaxIter == 2            \* largest opt.max_iter
MaxKeys == 3            \* longest list of requested optics parameters
SeriesLen == 4          \* number of points of the tune series
MaxLength == 3          \* largest averaging window `length`
MaxSign == 4            \* largest n given to return_sign_for_err on its own
NumElements == 2        \* number of rows of the accelerator's element table
MaxErrDefs == 1         \* most rows of the error-definition file
NumBpms == 3            \* number of BPMs n_bpm_method probes
NumRows == 2            \* number of rows of a magnet's K-modulation table
NumLattice == 3         \* elements of the lattice given to _assign_uncertainties alone
MaxPatterns == 2        \* most rows of the error definitions given to it alone
MaxRing == 6            \* most BPMs of the ring given to three_bpm_method
MaxCalls == 2           \* most calls of three_bpm_method on one phase dictionary

(***************************************************************************)
(* Generic helpers                                                         *)
(***************************************************************************)
\* an optional value: None, or Some(x)
None == <<>>

Some(x) == <<x>>

Value(o) == o[1]

Abs(x) == IF x < 0 THEN -x ELSE x

Range(s) == {s[i] : i \in 1..Len(s)}

RECURSIVE Pow10(_)
Pow10(n) == IF n = 0 THEN 1 ELSE 10 * Pow10(n - 1)

RECURSIVE NumDigits(_)
NumDigits(a) == IF a < 10 THEN 1 ELSE 1 + NumDigits(a \div 10)

\* the elements of s that are in keep, in the order of s
RECURSIVE SelectSeqBy(_, _)
SelectSeqBy(s, keep) ==
    IF s = <<>> THEN <<>>
    ELSE IF Head(s) \in keep THEN <<Head(s)>> \o SelectSeqBy(Tail(s), keep)
         ELSE SelectSeqBy(Tail(s), keep)

(***************************************************************************)
(* correction/handler.py                                                   *)
(***************************************************************************)
VARIABLES
    opt,                    \* the options record given to correct()
    accel_inst,             \* the accelerator: variables it returns, _model, _elements
    pc,                     \* position of correct()
    failure,                \* the exception that left correct(), or "none"
    iteration,              \* the loop variable of the iteration phase
    vars_list,              \* sequence of corrector names
    delta,                  \* Delta Vector: sequence of [name, val]
    resp_matrix,            \* column labels of the combined response matrix
    change_params,          \* file at opt.change_params_path
    change_params_correct,  \* file at opt.change_params_correct_path
    knob,                   \* file at opt.knob_path
    twiss_files,            \* iterations whose twiss_{iteration} file exists
    madx_input,             \* parameter file content the last simulator run read
    calls,                  \* how often each collaborator has been called
    pruned,                 \* history: the correctors _filter_by_strength has removed
    increments              \* history: per surviving corrector, the sum of the values
                            \* the solves have returned for it

corrVars == <<opt, accel_inst, pc, failure, iteration, vars_list, delta, resp_matrix,
              change_params, change_params_correct, knob, twiss_files, madx_input, calls,
              pruned, increments>>

\* _get_measurment_data
VARIABLES
    keys,                   \* the requested optics parameters, each a tuple of characters
    w_dict,                 \* weight of every requested key
    filtered_keys,          \* the local of that name
    measurement,            \* the dictionary being filled: key -> table read
    meas_pc,                \* position of _get_measurment_data
    meas_i                  \* position of the for loop in filtered_keys

measVars == <<keys, w_dict, filtered_keys, measurement, meas_pc, meas_i>>

\* get_moving_average
VARIABLES
    mav_args,               \* the arguments: data_series (values and index), length,
                            \* min_val, max_val, fine_length, fine_cut
    cut_mask,               \* the local of that name: TRUE where a point is excluded
    data_mav,               \* the local of that name
    mav_pc,                 \* position of get_moving_average
    mav_error,              \* <<exception type, place>> once raised, else <<>>
    mav_calls               \* masks, guards and averages computed so far, per pass

mavVars == <<mav_args, cut_mask, data_mav, mav_pc, mav_error, mav_calls>>

\* kmod_analysis: one call of return_sign_for_err, get_beta_waist, calc_betastar or
\* calc_beta_inst
VARIABLES
    kmod_call,              \* the function called and its arguments
    kmod_sign,              \* the local `sign`: rows 0..2n of columns 0..n-1
    foc_def,                \* what return_df has returned
    results,                \* get_beta_waist: the fits stored so far, row 0 first;
                            \* calc_betastar, calc_beta_inst: the vector per plane
    kmod_i,                 \* the loop variable: index of the fit, or of the plane
    kmod_pc,                \* position in the called function
    kmod_error,             \* the exception that left it, or "none"
    kmod_return             \* the value returned

kmodVars == <<kmod_call, kmod_sign, foc_def, results, kmod_i, kmod_pc, kmod_error, kmod_return>>

\* beta_from_phase.calculate
VARIABLES
    meas_input,             \* compensation, three_bpm_method, range_of_bpms and what the
                            \* accelerator answers: excitation, best-knowledge support,
                            \* error-definition path
    tune_dict,              \* the tunes of the plane: Q, QM, QF, QFM, in thousandths
    meas_and_model_tunes,   \* the local of that name
    model,                  \* the local of that name: which model table it holds
    bk_model,               \* the local of that name
    elements,               \* the local of that name: sequence of element rows
    error_method,           \* the local of that name
    beta_log,               \* the warnings logged
    beta_calls,             \* how often each collaborator has been called
    beta_used,              \* the arguments betas_alphas_from_phase was called with
    header,                 \* the header returned
    beta_pc,                \* position of calculate()
    beta_error              \* the exception that left calculate(), or "none"

betaVars == <<meas_input, tune_dict, meas_and_model_tunes, model, bk_model, elements,
              error_method, beta_log, beta_calls, beta_used, header, beta_pc, beta_error>>

\* beta_from_phase.n_bpm_method
VARIABLES
    covariances,            \* per probed BPM so far: the combinations found for it and
                            \* the covariance matrices assembled from them
    indx,                   \* the loop variable: BPMs probed so far
    betas_alfas,            \* the local of that name: per BPM beti, beterr, alfi, alferr
    n_comb,                 \* the local of that name
    beta_df,                \* the table returned: the probed BPMs it keeps
    nbpm_pc,                \* position of n_bpm_method
    nbpm_error              \* the exception that left n_bpm_method, or "none"

nbpmVars == <<covariances, indx, betas_alfas, n_comb, beta_df, nbpm_pc, nbpm_error>>

\* kmod_analysis: calc_tune, calc_k, return_fit_input
VARIABLES
    magnet_df,              \* the magnet's table: its rows and its headers
    fit_input,              \* what return_fit_input returned, and for which plane
    fit_pc                  \* position in analyse() and do_fit()

fitVars == <<magnet_df, fit_input, fit_pc>>

\* kmod_analysis.chi2
VARIABLES
    chi2_args,              \* the arguments of the call
    chi2_calls,             \* the calls of the two average_beta functions: their
                            \* arguments and what they returned
    c2,                     \* the value chi2 returns
    chi2_pc                 \* position of chi2

chiVars == <<chi2_args, chi2_calls, c2, chi2_pc>>

\* beta_from_phase._assign_uncertainties called on its own
VARIABLES
    unc_twiss_full,         \* the argument twiss_full
    unc_errdefs,            \* the table read from errordefspath
    unc_return,             \* the table returned
    unc_pc                  \* position of _assign_uncertainties

uncVars == <<unc_twiss_full, unc_errdefs, unc_return, unc_pc>>

\* beta_from_phase.three_bpm_method and _tilt_slice_matrix
VARIABLES
    phase,                  \* the caller's dictionary: MEAS, MODEL, ERRMEAS, each a
                            \* square matrix with rows and columns from 0
    phase_given,            \* the dictionary as it was before the first call
    values_is_view,         \* DataFrame.values hands out the frame's own block (a
                            \* frame of one dtype) and not a copy
    tunes,                  \* meas_and_mdl_tunes
    tilted,                 \* per call: tilted_meas, tilted_model, tilted_errmeas, in
                            \* units of TWOPI
    tilt_pc                 \* position of the caller

tiltVars == <<phase, phase_given, values_is_view, tunes, tilted, tilt_pc>>

vars == <<corrVars, measVars, mavVars, kmodVars, betaVars, nbpmVars, fitVars, chiVars, uncVars, tiltVars>>

\* names the accelerator knows, in its order
Correctors == <<"kq1", "kq2", "kq3", "kq4">>

\* increments a solve can give one corrector, in units of 1e-12; each has more digits
\* than a parameter file keeps
Increments == {-24691350, 0, 12345675}

\* values of opt.min_corrector_strength, in the same units
Strengths == {0, 12345675}

Precision == 6          \* digits after the point of the 'e' presentation type

OutputDir == <<"out">>
KnobPaths == {<<"out", "changeparameters.knob">>, <<"knobs", "lhc", "changeparameters.knob">>}

NoFile == [exists |-> FALSE, lines |-> <<>>]
NoKnob == [exists |-> FALSE, PATH |-> <<>>, rows |-> <<>>]

\* os.path.dirname on a path given as its components
dirname(path) == SubSeq(path, 1, Len(path) - 1)

\* f"{value:+e}": explicit sign, Precision + 1 significant digits (ties to even),
\* decimal exponent; the number written is mant * 10^(exp - Precision)
FormatE(value) ==
    LET a == Abs(value)
        n == NumDigits(a)
        sign == IF value < 0 THEN "-" ELSE "+"
    IN  IF a = 0 THEN [sign |-> "+", mant |-> 0, exp |-> 0]
        ELSE IF n <= Precision + 1
        THEN [sign |-> sign, mant |-> a * Pow10(Precision + 1 - n), exp |-> n - 1]
        ELSE LET p == Pow10(n - Precision - 1)
                 q == a \div p
                 r == a % p
                 m == IF 2 * r > p \/ (2 * r = p /\ q % 2 = 1) THEN q + 1 ELSE q
             IN  IF m = Pow10(Precision + 1)
                 THEN [sign |-> sign, mant |-> Pow10(Precision), exp |-> n]
                 ELSE [sign |-> sign, mant |-> m, exp |-> n - 1]

\* -delta on a Delta Vector
Negated(d) == [i \in 1..Len(d) |-> [name |-> d[i].name, val |-> -d[i].val]]

Index(d) == [i \in 1..Len(d) |-> d[i].name]

\* the lines writeparams writes for a Delta Vector
ParamLines(d) == [i \in 1..Len(d) |-> [var |-> d[i].name, value |-> FormatE(d[i].val)]]

writeparamsAppend(file, d) == [exists |-> TRUE, lines |-> file.lines \o ParamLines(d)]

\* writeparams: open(path, "w") truncates, then one line per index entry
writeparams(file, d) == [exists |-> TRUE, lines |-> ParamLines(d)]

write_knobNotNegated(knob_path, d) ==
    [exists |-> TRUE, PATH |-> dirname(knob_path), rows |-> d]

\* write_knob: negated DELTA column, PATH header from the knob path
write_knob(knob_path, d) ==
    [exists |-> TRUE, PATH |-> dirname(knob_path), rows |-> Negated(d)]

_filter_by_strengthNoFilter(d, min_strength) == d

\* _filter_by_strength: the rows with |DELTA| > min_strength, in their order
_filter_by_strength(d, min_strength) ==
    SelectSeqBy(d, {d[i] : i \in {j \in 1..Len(d) : Abs(d[j].val) > min_strength}})

\* resp_matrix.loc[:, labels]: the columns with these labels, in the labels' order
ColumnsLoc(columns, labels) == SelectSeqBy(labels, Range(columns))

_join_responsesAllVariables(varslist) == accel_inst.variables

\* _join_responses: the columns are the given variable list
_join_responses(varslist) == varslist

\* tfs.TfsDataFrame(values, index=vars_list, columns=[DELTA])
DeltaFrame(values, index) == [i \in 1..Len(index) |-> [name |-> index[i], val |-> values[i]]]

AccumulateReplace(d, inc) == inc

\* delta += increment, on frames with the same index
Accumulate(d, inc) == [i \in 1..Len(d) |-> [name |-> d[i].name, val |-> d[i].val + inc[i].val]]

\* delta.loc[name, DELTA]
ValueOf(d, name) == LET i == CHOOSE j \in 1..Len(d) : d[j].name = name IN d[i].val

NonZeros(values) == Cardinality({i \in 1..Len(values) : values[i] # 0})

\* _calculate_delta: what a solve can return, one value per column of the response
\* matrix, labelled with vars_list; omp gives at most n_correctors non-zero values
_calculate_delta(columns, index) ==
    {DeltaFrame(values, index) :
        values \in {v \in [1..Len(columns) -> Increments] :
                       opt.method = "omp" /\ opt.n_correctors # None =>
                           NonZeros(v) <= Value(opt.n_correctors)}}

\* _pseudo_inverse / _orthogonal_matching_pursuit: the sub-option the method needs
MethodOptionMissingSwapped ==
    \/ opt.method = "pinv" /\ opt.n_correctors = None
    \/ opt.method = "omp" /\ opt.svd_cut = None

MethodOptionMissing ==
    \/ opt.method = "pinv" /\ opt.svd_cut = None
    \/ opt.method = "omp" /\ opt.n_correctors = None

VarlistEmptyUnchecked(varlist) == FALSE

\* _get_varlist: the test that raises 'No variables found'
VarlistEmpty(varlist) == Len(varlist) = 0

Options ==
    [max_iter : 0..MaxIter,
     min_corrector_strength : Strengths,
     method : {"pinv", "omp"},
     svd_cut : {None, Some(0)},
     n_correctors : {None, Some(1)},
     update_response : BOOLEAN,
     fullresponse_path : {None, Some("fullresponse")},
     output_dir : {OutputDir},
     knob_path : KnobPaths]

NoCalls == [madx |-> 0, tfs_read |-> 0, solve |-> 0, create_response |-> 0, read_meas |-> 0,
            load_fullresponse |-> 0]

CorrIdle ==
    /\ opt = [max_iter |-> 0, min_corrector_strength |-> 0, method |-> "pinv",
              svd_cut |-> None, n_correctors |-> None, update_response |-> FALSE,
              fullresponse_path |-> None, output_dir |-> OutputDir,
              knob_path |-> <<"out", "changeparameters.knob">>]
    /\ accel_inst = [variables |-> <<>>, _model |-> 0, _elements |-> 0]
    /\ pc = "idle"
    /\ failure = "none"
    /\ iteration = 0
    /\ vars_list = <<>>
    /\ delta = <<>>
    /\ resp_matrix = <<>>
    /\ change_params = NoFile
    /\ change_params_correct = NoFile
    /\ knob = NoKnob
    /\ twiss_files = {}
    /\ madx_input = <<>>
    /\ calls = NoCalls
    /\ pruned = {}
    /\ increments = [name \in {} |-> 0]

CorrInit ==
    /\ opt \in Options
    /\ accel_inst \in {[variables |-> SubSeq(Correctors, 1, n), _model |-> 0, _elements |-> 0] :
                          n \in 0..NumCorrectors}
    /\ pc = "varlist"
    /\ failure = "none"
    /\ iteration = 0
    /\ vars_list = <<>>
    /\ delta = <<>>
    /\ resp_matrix = <<>>
    /\ change_params = NoFile
    /\ change_params_correct = NoFile
    /\ knob = NoKnob
    /\ twiss_files = {}
    /\ madx_input = <<>>
    /\ calls = NoCalls
    /\ pruned = {}
    /\ increments = [name \in {} |-> 0]

RaiseAndGoOn(what) ==
    /\ pc' = IF what \in {"Simulator failed", "Model file unreadable"} THEN "solve" ELSE "raised"
    /\ failure' = what

\* an exception inside correct(): nothing catches it, correct() is left
Raise(what) ==
    /\ pc' = "raised"
    /\ failure' = what

\* _get_varlist
GetVarlist ==
    /\ pc = "varlist"
    /\ IF VarlistEmpty(accel_inst.variables)
       THEN /\ Raise("No variables found")
            /\ UNCHANGED vars_list
       ELSE /\ vars_list' = accel_inst.variables
            /\ pc' = "measurement"
            /\ UNCHANGED failure
    /\ UNCHANGED <<opt, accel_inst, iteration, delta, resp_matrix, change_params,
                   change_params_correct, knob, twiss_files, madx_input, calls, pruned, increments>>
    /\ UNCHANGED <<measVars, mavVars, kmodVars, betaVars, nbpmVars, fitVars, chiVars, uncVars, tiltVars>>

\* _get_measurment_data as correct() calls it
GetMeasurementData ==
    /\ pc = "measurement"
    /\ calls' = [calls EXCEPT !.read_meas = @ + 1]
    /\ pc' = "response"
    /\ UNCHANGED <<opt, accel_inst, failure, iteration, vars_list, delta, resp_matrix,
                   change_params, change_params_correct, knob, twiss_files, madx_input,
                   pruned, increments>>
    /\ UNCHANGED <<measVars, mavVars, kmodVars, betaVars, nbpmVars, fitVars, chiVars, uncVars, tiltVars>>

\* _load_fullresponse when a path is configured
LoadFullresponse ==
    /\ pc = "response"
    /\ opt.fullresponse_path # None
    /\ calls' = [calls EXCEPT !.load_fullresponse = @ + 1]
    /\ \E found \in BOOLEAN :
          IF found
          THEN pc' = "setup" /\ UNCHANGED failure
          ELSE Raise("None of the given variables found in response matrix")
    /\ UNCHANGED <<opt, accel_inst, iteration, vars_list, delta, resp_matrix, change_params,
                   change_params_correct, knob, twiss_files, madx_input, pruned, increments>>
    /\ UNCHANGED <<measVars, mavVars, kmodVars, betaVars, nbpmVars, fitVars, chiVars, uncVars, tiltVars>>

\* response_twiss.create_response in the setup phase
CreateResponse ==
    /\ pc = "response"
    /\ opt.fullresponse_path = None
    /\ calls' = [calls EXCEPT !.create_response = @ + 1]
    /\ pc' = "setup"
    /\ UNCHANGED <<opt, accel_inst, failure, iteration, vars_list, delta, resp_matrix,
                   change_params, change_params_correct, knob, twiss_files, madx_input,
                   pruned, increments>>
    /\ UNCHANGED <<measVars, mavVars, kmodVars, betaVars, nbpmVars, fitVars, chiVars, uncVars, tiltVars>>

\* filters, model appender, _join_responses, the zero Delta Vector, loop entry
Setup ==
    /\ pc = "setup"
    /\ resp_matrix' = _join_responses(vars_list)
    /\ delta' = DeltaFrame([i \in 1..Len(vars_list) |-> 0], vars_list)
    /\ increments' = [name \in Range(vars_list) |-> 0]
    /\ iteration' = 0
    /\ pc' = "solve"
    /\ UNCHANGED <<opt, accel_inst, failure, vars_list, change_params,
                   change_params_correct, knob, twiss_files, madx_input, calls, pruned>>
    /\ UNCHANGED <<measVars, mavVars, kmodVars, betaVars, nbpmVars, fitVars, chiVars, uncVars, tiltVars>>

CorrectedModelParamsCorrect == change_params_correct

\* the parameter file _create_corrected_model hands to the simulator
CorrectedModelParams == change_params

\* _create_corrected_model: the simulator run of an iteration > 0
CreateCorrectedModel ==
    /\ pc = "madx"
    /\ iteration > 0
    /\ \E ok \in BOOLEAN :
          IF ok
          THEN /\ calls' = [calls EXCEPT !.madx = @ + 1]
               /\ madx_input' = CorrectedModelParams.lines
               /\ twiss_files' = twiss_files \cup {iteration}
               /\ pc' = "reload"
               /\ UNCHANGED failure
          ELSE /\ Raise("Simulator failed")
               /\ UNCHANGED <<calls, madx_input, twiss_files>>
    /\ UNCHANGED <<opt, accel_inst, iteration, vars_list, delta, resp_matrix, change_params,
                   change_params_correct, knob, pruned, increments>>
    /\ UNCHANGED <<measVars, mavVars, kmodVars, betaVars, nbpmVars, fitVars, chiVars, uncVars, tiltVars>>

\* tfs.read of the corrected model, coupling columns, BPM rows, model appender
ReloadModel ==
    /\ pc = "reload"
    /\ \E ok \in BOOLEAN :
          IF ok
          THEN /\ calls' = [calls EXCEPT !.tfs_read = @ + 1]
               /\ pc' = IF opt.update_response THEN "update" ELSE "solve"
               /\ UNCHANGED failure
          ELSE /\ Raise("Model file unreadable")
               /\ UNCHANGED calls
    /\ UNCHANGED <<opt, accel_inst, iteration, vars_list, delta, resp_matrix, change_params,
                   change_params_correct, knob, twiss_files, madx_input, pruned, increments>>
    /\ UNCHANGED <<measVars, mavVars, kmodVars, betaVars, nbpmVars, fitVars, chiVars, uncVars, tiltVars>>

CorrectedModelOfModelOnly(a, i) == [a EXCEPT !._model = i]

\* the accelerator with the corrected model of iteration i as its current model
CorrectedModelOf(a, i) == [a EXCEPT !._model = i, !._elements = i]

\* opt.update_response: overwrite the accelerator's _model and _elements
OverwriteModel ==
    /\ pc = "update"
    /\ accel_inst' = CorrectedModelOf(accel_inst, iteration)
    /\ pc' = "rebuild"
    /\ UNCHANGED <<opt, failure, iteration, vars_list, delta, resp_matrix, change_params,
                   change_params_correct, knob, twiss_files, madx_input, calls, pruned, increments>>
    /\ UNCHANGED <<measVars, mavVars, kmodVars, betaVars, nbpmVars, fitVars, chiVars, uncVars, tiltVars>>

\* opt.update_response: create_response on the overwritten accelerator, filter, rejoin
UpdateResponse ==
    /\ pc = "rebuild"
    /\ calls' = [calls EXCEPT !.create_response = @ + 1]
    /\ resp_matrix' = _join_responses(vars_list)
    /\ pc' = "solve"
    /\ UNCHANGED <<opt, accel_inst, failure, iteration, vars_list, delta, change_params,
                   change_params_correct, knob, twiss_files, madx_input, pruned, increments>>
    /\ UNCHANGED <<measVars, mavVars, kmodVars, betaVars, nbpmVars, fitVars, chiVars, uncVars, tiltVars>>

\* _calculate_delta, delta +=, _filter_by_strength
CalculateDelta ==
    /\ pc = "solve"
    /\ IF MethodOptionMissing
       THEN /\ Raise("Method option needed")
            /\ UNCHANGED <<delta, resp_matrix, vars_list, calls, pruned, increments>>
       ELSE \E inc \in _calculate_delta(resp_matrix, vars_list) :
               LET filtered == _filter_by_strength(Accumulate(delta, inc),
                                                   opt.min_corrector_strength)
               IN  /\ delta' = filtered
                   /\ resp_matrix' = ColumnsLoc(resp_matrix, Index(filtered))
                   /\ vars_list' = Index(filtered)
                   /\ pruned' = pruned \cup (Range(vars_list) \ Range(Index(filtered)))
                   /\ increments' = [name \in Range(Index(filtered)) |->
                                        increments[name] + ValueOf(inc, name)]
                   /\ calls' = [calls EXCEPT !.solve = @ + 1]
                   /\ pc' = "write"
                   /\ UNCHANGED failure
    /\ UNCHANGED <<opt, accel_inst, iteration, change_params, change_params_correct, knob,
                   twiss_files, madx_input>>
    /\ UNCHANGED <<measVars, mavVars, kmodVars, betaVars, nbpmVars, fitVars, chiVars, uncVars, tiltVars>>

\* the two writeparams calls that end an iteration, and the loop's step
WriteParams ==
    /\ pc = "write"
    /\ change_params' = writeparams(change_params, delta)
    /\ change_params_correct' = writeparams(change_params_correct, Negated(delta))
    /\ IF iteration < opt.max_iter
       THEN iteration' = iteration + 1 /\ pc' = "madx"
       ELSE UNCHANGED iteration /\ pc' = "knob"
    /\ UNCHANGED <<opt, accel_inst, failure, vars_list, delta, resp_matrix, knob,
                   twiss_files, madx_input, calls, pruned, increments>>
    /\ UNCHANGED <<measVars, mavVars, kmodVars, betaVars, nbpmVars, fitVars, chiVars, uncVars, tiltVars>>

\* write_knob after the loop
WriteKnob ==
    /\ pc = "knob"
    /\ knob' = write_knob(opt.knob_path, delta)
    /\ pc' = "done"
    /\ UNCHANGED <<opt, accel_inst, failure, iteration, vars_list, delta, resp_matrix,
                   change_params, change_params_correct, twiss_files, madx_input, calls,
                   pruned, increments>>
    /\ UNCHANGED <<measVars, mavVars, kmodVars, betaVars, nbpmVars, fitVars, chiVars, uncVars, tiltVars>>

CorrNext ==
    \/ GetVarlist
    \/ GetMeasurementData
    \/ LoadFullresponse
    \/ CreateResponse
    \/ Setup
    \/ CreateCorrectedModel
    \/ ReloadModel
    \/ OverwriteModel
    \/ UpdateResponse
    \/ CalculateDelta
    \/ WriteParams
    \/ WriteKnob

(***************************************************************************)
(* correction/handler.py: _get_measurment_data                             *)
(***************************************************************************)
MUX == <<"M", "U", "X">>
MUY == <<"M", "U", "Y">>
DX == <<"D", "X">>
DY == <<"D", "Y">>
NDX == <<"N", "D", "X">>
Q == <<"Q">>
BETX == <<"B", "E", "T", "X">>
BETY == <<"B", "E", "T", "Y">>
F1001R == <<"F", "1", "0", "0", "1", "R">>
F1001I == <<"F", "1", "0", "0", "1", "I">>
F1010R == <<"F", "1", "0", "1", "0", "R">>
F1010I == <<"F", "1", "0", "1", "0", "I">>

\* the optics parameters correct() can be asked for
OpticsParams == {MUX, MUY, DX, DY, NDX, Q, BETX, BETY, F1001R, F1001I, F1010R, F1010I}

Weights == {0, 1}

\* str.startswith
startswith(key, prefix) ==
    Len(key) >= Len(prefix) /\ SubSeq(key, 1, Len(prefix)) = prefix

\* key[-1].lower()
LastLower(key) ==
    LET c == key[Len(key)]
    IN  CASE c = "X" -> "x"
          [] c = "Y" -> "y"
          [] c = "Q" -> "q"
          [] c = "R" -> "r"
          [] c = "I" -> "i"
          [] OTHER -> c

\* read_meas(meas_dir, f"{stem}{plane}{EXT}")
read_meas(stem, plane) == [table |-> "tfs", stem |-> stem, plane |-> plane]

\* the if/elif chain of the loop body: Some(table) to store under key, or None
MeasurementEntry(key) ==
    IF startswith(key, <<"M", "U">>) THEN Some(read_meas("PHASE_NAME", LastLower(key)))
    ELSE IF startswith(key, <<"D">>) THEN Some(read_meas("DISPERSION_NAME", LastLower(key)))
    ELSE IF key = NDX THEN Some(read_meas("NORM_DISP_NAME", LastLower(key)))
    ELSE IF key \in {F1001R, F1001I, F1010R, F1010I} THEN None
    ELSE IF key = Q THEN Some([table |-> "tunes", stem |-> "PHASE_NAME", plane |-> "x"])
    ELSE IF startswith(key, <<"B", "E", "T">>)
         THEN Some(read_meas("beta_file_name", LastLower(key)))
    ELSE None

FilteredKeysAll(ks, w) == ks

\* [k for k in keys if w_dict[k] != 0]
FilteredKeys(ks, w) == SelectSeqBy(ks, {k \in Range(ks) : w[k] # 0})

MeasIdle ==
    /\ keys = <<>>
    /\ w_dict = <<>>
    /\ filtered_keys = <<>>
    /\ measurement = <<>>
    /\ meas_pc = "idle"
    /\ meas_i = 0

KeyLists == UNION {[1..n -> OpticsParams] : n \in 0..MaxKeys}

MeasInit ==
    /\ keys \in KeyLists
    /\ w_dict \in [Range(keys) -> Weights]
    /\ filtered_keys = <<>>
    /\ measurement = <<>>
    /\ meas_pc = "filter"
    /\ meas_i = 0

\* measurement = {}; filtered_keys = [...]
FilterKeys ==
    /\ meas_pc = "filter"
    /\ filtered_keys' = FilteredKeys(keys, w_dict)
    /\ measurement' = <<>>
    /\ meas_i' = 1
    /\ meas_pc' = "loop"
    /\ UNCHANGED <<keys, w_dict>>
    /\ UNCHANGED <<corrVars, mavVars, kmodVars, betaVars, nbpmVars, fitVars, chiVars, uncVars, tiltVars>>

\* one pass of the for loop
LoadKey ==
    /\ meas_pc = "loop"
    /\ meas_i <= Len(filtered_keys)
    /\ LET key == filtered_keys[meas_i]
           entry == MeasurementEntry(key)
       IN  measurement' = IF entry = None THEN measurement
                          ELSE [k \in DOMAIN measurement \cup {key} |->
                                   IF k = key THEN Value(entry) ELSE measurement[k]]
    /\ meas_i' = meas_i + 1
    /\ UNCHANGED <<keys, w_dict, filtered_keys, meas_pc>>
    /\ UNCHANGED <<corrVars, mavVars, kmodVars, betaVars, nbpmVars, fitVars, chiVars, uncVars, tiltVars>>

\* return filtered_keys, measurement
ReturnMeasurement ==
    /\ meas_pc = "loop"
    /\ meas_i > Len(filtered_keys)
    /\ meas_pc' = "returned"
    /\ UNCHANGED <<keys, w_dict, filtered_keys, measurement, meas_i>>
    /\ UNCHANGED <<corrVars, mavVars, kmodVars, betaVars, nbpmVars, fitVars, chiVars, uncVars, tiltVars>>

MeasNext ==
    \/ FilterKeys
    \/ LoadKey
    \/ ReturnMeasurement

CouplingKeys == {F1001R, F1001I, F1010R, F1010I}

\* positions of keys whose weight is not zero
C8_Kept == {i \in 1..Len(keys) : w_dict[keys[i]] # 0}

\* C8: _get_measurment_data returns as key list the requested keys of non-zero
\* weight in their requested order, and a dictionary whose keys are those of the
\* key list that are not coupling keys; a key of weight zero is in neither.
C8_MeasurementData ==
    meas_pc = "returned" =>
        /\ Len(filtered_keys) = Cardinality(C8_Kept)
        /\ \A i \in C8_Kept :
              filtered_keys[Cardinality({j \in C8_Kept : j <= i})] = keys[i]
        /\ DOMAIN measurement = Range(filtered_keys) \ CouplingKeys
        /\ \A k \in Range(keys) :
              w_dict[k] = 0 => k \notin Range(filtered_keys) /\ k \notin DOMAIN measurement

\* a weight-zero key, a coupling key and a loaded key in one request
C8_Witness ==
    /\ meas_pc = "returned"
    /\ Len(keys) = 3
    /\ \E k \in Range(keys) : w_dict[k] = 0
    /\ Range(filtered_keys) \cap CouplingKeys # {}
    /\ DOMAIN measurement # {}

(***************************************************************************)
(* tune_analysis/bbq_tools.py                                              *)
(***************************************************************************)
\* numbers of the series and of the averages: <<numerator, denominator>> in lowest
\* terms with a positive denominator; NaN has denominator 0
NaN == <<0, 0>>

IsNaN(v) == v[2] = 0

RECURSIVE GCD(_, _)
GCD(a, b) == IF b = 0 THEN a ELSE GCD(b, a % b)

Rat(n, d) == LET g == GCD(Abs(n), d) IN <<n \div g, d \div g>>

RAdd(a, b) == Rat(a[1] * b[2] + b[1] * a[2], a[2] * b[2])

RSub(a, b) == Rat(a[1] * b[2] - b[1] * a[2], a[2] * b[2])

\* a <= b as pandas compares: FALSE when either side is NaN
RLeq(a, b) == ~IsNaN(a) /\ ~IsNaN(b) /\ a[1] * b[2] <= b[1] * a[2]

RECURSIVE RSum(_)
RSum(s) == IF s = <<>> THEN <<0, 1>> ELSE RAdd(Head(s), RSum(Tail(s)))

\* values a point of the series can have
DataValues == {NaN, <<0, 1>>, <<2, 1>>, <<4, 1>>}

\* the series' index: evenly and unevenly spaced times
DataIndexes == {[i \in 1..SeriesLen |-> i], [i \in 1..SeriesLen |-> (i * (i + 1)) \div 2]}

MavArgs ==
    [values : [1..SeriesLen -> DataValues],
     index : DataIndexes,
     length : 1..MaxLength,
     min_val : {None, Some(0)},
     max_val : {None, Some(4)},
     fine_length : {None, Some(0), Some(2)},
     fine_cut : {None, Some(0), Some(1)}]

\* bool(x) of an optional number
bool(o) == o # None /\ o # Some(0)

\* bool(fine_length) != bool(fine_cut)
FineOptionsMismatch(fine_length, fine_cut) == bool(fine_length) # bool(fine_cut)

\* min_mask | max_mask | data_series.isna() of the coarse pass
CoarseCutMask(values, min_val, max_val) ==
    [i \in 1..Len(values) |->
        \/ min_val # None /\ RLeq(values[i], <<Value(min_val), 1>>)
        \/ max_val # None /\ RLeq(<<Value(max_val), 1>>, values[i])
        \/ IsNaN(values[i])]

\* min_mask | max_mask | data_series.isna() of the fine pass
FineCutMask(values, mav, fine_cut) ==
    [i \in 1..Len(values) |->
        \/ RLeq(values[i], RSub(mav[i], <<fine_cut, 1>>))
        \/ RLeq(RAdd(mav[i], <<fine_cut, 1>>), values[i])
        \/ IsNaN(values[i])]

\* sum(mask) for the mask of the points that are not excluded
Survivors(mask) == Cardinality({i \in 1..Len(mask) : ~mask[i]})

_is_almost_empty_maskStrict(mask, av_length) == Survivors(mask) < av_length

\* _is_almost_empty_mask: TRUE when it raises
_is_almost_empty_mask(mask, av_length) == Survivors(mask) <= av_length

\* data.interpolate("index"): linear in the index between valid neighbours, the
\* last valid value after the last valid point, NaN before the first
Interpolate(values, index) ==
    [i \in 1..Len(values) |->
        IF ~IsNaN(values[i]) THEN values[i]
        ELSE LET before == {j \in 1..(i - 1) : ~IsNaN(values[j])}
                 after == {j \in (i + 1)..Len(values) : ~IsNaN(values[j])}
             IN  IF before = {} THEN NaN
                 ELSE LET a == CHOOSE j \in before : \A k \in before : k <= j
                      IN  IF after = {} THEN values[a]
                          ELSE LET b == CHOOSE j \in after : \A k \in after : j <= k
                                   va == values[a]
                                   vb == values[b]
                                   slope == RSub(vb, va)
                               IN  RAdd(va, Rat(slope[1] * (index[i] - index[a]),
                                                slope[2] * (index[b] - index[a])))]

\* fillna(method="bfill"): the next valid value
bfill(s) ==
    [i \in 1..Len(s) |->
        LET after == {j \in i..Len(s) : ~IsNaN(s[j])}
        IN  IF after = {} THEN NaN ELSE s[CHOOSE j \in after : \A k \in after : j <= k]]

\* fillna(method="ffill"): the last valid value
ffill(s) ==
    [i \in 1..Len(s) |->
        LET before == {j \in 1..i : ~IsNaN(s[j])}
        IN  IF before = {} THEN NaN ELSE s[CHOOSE j \in before : \A k \in before : k <= j]]

\* data.rolling(length).mean(): the mean of the last `length` points, NaN while
\* fewer are there or one of them is NaN
RollingMean(s, length) ==
    [i \in 1..Len(s) |->
        IF length = 0 \/ i < length THEN NaN
        ELSE LET window == SubSeq(s, i - length + 1, i)
                 total == RSum(window)
             IN  IF \E j \in 1..length : IsNaN(window[j]) THEN NaN
                 ELSE Rat(total[1], total[2] * length)]

HalfWindowCeil(length) == length \div 2

\* int((length-1)/2): truncation towards zero
HalfWindow(length) == IF length >= 1 THEN (length - 1) \div 2 ELSE 0

\* Series.shift(shift) for shift <= 0
Shift(s, shift) ==
    [i \in 1..Len(s) |-> IF i - shift <= Len(s) THEN s[i - shift] ELSE NaN]

\* _get_interpolated_moving_average, the mean it returns
_get_interpolated_moving_average(values, index, clean_mask, length) ==
    LET masked == [i \in 1..Len(values) |-> IF clean_mask[i] THEN NaN ELSE values[i]]
        data == ffill(bfill(Interpolate(masked, index)))
    IN  ffill(bfill(Shift(RollingMean(data, length), -HalfWindow(length))))

NoMavCalls == [mask |-> 0, guard |-> 0, average |-> 0, fine_mask |-> 0, fine_guard |-> 0,
               fine_average |-> 0]

MavIdle ==
    /\ mav_args = [values |-> <<>>, index |-> <<>>, length |-> 1, min_val |-> None,
                   max_val |-> None, fine_length |-> None, fine_cut |-> None]
    /\ cut_mask = <<>>
    /\ data_mav = <<>>
    /\ mav_pc = "idle"
    /\ mav_error = <<>>
    /\ mav_calls = NoMavCalls

MavInit ==
    /\ mav_args \in MavArgs
    /\ cut_mask = <<>>
    /\ data_mav = <<>>
    /\ mav_pc = "options"
    /\ mav_error = <<>>
    /\ mav_calls = NoMavCalls

MavRaise(type, place) ==
    /\ mav_pc' = "raised"
    /\ mav_error' = <<type, place>>

\* the test of the fine-cleaning options
CheckFineOptions ==
    /\ mav_pc = "options"
    /\ IF FineOptionsMismatch(mav_args.fine_length, mav_args.fine_cut)
       THEN MavRaise("NotImplementedError", "options")
       ELSE mav_pc' = "mask" /\ UNCHANGED mav_error
    /\ UNCHANGED <<mav_args, cut_mask, data_mav, mav_calls>>
    /\ UNCHANGED <<corrVars, measVars, kmodVars, betaVars, nbpmVars, fitVars, chiVars, uncVars, tiltVars>>

\* min_mask, max_mask, cut_mask of the coarse pass
CoarseMask ==
    /\ mav_pc = "mask"
    /\ cut_mask' = CoarseCutMask(mav_args.values, mav_args.min_val, mav_args.max_val)
    /\ mav_calls' = [mav_calls EXCEPT !.mask = @ + 1]
    /\ mav_pc' = "guard"
    /\ UNCHANGED <<mav_args, data_mav, mav_error>>
    /\ UNCHANGED <<corrVars, measVars, kmodVars, betaVars, nbpmVars, fitVars, chiVars, uncVars, tiltVars>>

\* _is_almost_empty_mask(~cut_mask, length)
CoarseGuard ==
    /\ mav_pc = "guard"
    /\ mav_calls' = [mav_calls EXCEPT !.guard = @ + 1]
    /\ IF _is_almost_empty_mask(cut_mask, mav_args.length)
       THEN MavRaise("ValueError", "guard")
       ELSE mav_pc' = "average" /\ UNCHANGED mav_error
    /\ UNCHANGED <<mav_args, cut_mask, data_mav>>
    /\ UNCHANGED <<corrVars, measVars, kmodVars, betaVars, nbpmVars, fitVars, chiVars, uncVars, tiltVars>>

\* the coarse moving average and the test whether a fine pass follows
CoarseAverage ==
    /\ mav_pc = "average"
    /\ data_mav' = _get_interpolated_moving_average(mav_args.values, mav_args.index,
                                                    cut_mask, mav_args.length)
    /\ mav_calls' = [mav_calls EXCEPT !.average = @ + 1]
    /\ mav_pc' = IF mav_args.fine_length # None THEN "fine_mask" ELSE "return"
    /\ UNCHANGED <<mav_args, cut_mask, mav_error>>
    /\ UNCHANGED <<corrVars, measVars, kmodVars, betaVars, nbpmVars, fitVars, chiVars, uncVars, tiltVars>>

\* min_mask, max_mask, cut_mask of the fine pass; data_mav - None is a TypeError
FineMask ==
    /\ mav_pc = "fine_mask"
    /\ IF mav_args.fine_cut = None
       THEN /\ MavRaise("TypeError", "fine_mask")
            /\ UNCHANGED <<cut_mask, mav_calls>>
       ELSE /\ cut_mask' = FineCutMask(mav_args.values, data_mav, Value(mav_args.fine_cut))
            /\ mav_calls' = [mav_calls EXCEPT !.fine_mask = @ + 1]
            /\ mav_pc' = "fine_guard"
            /\ UNCHANGED mav_error
    /\ UNCHANGED <<mav_args, data_mav>>
    /\ UNCHANGED <<corrVars, measVars, kmodVars, betaVars, nbpmVars, fitVars, chiVars, uncVars, tiltVars>>

\* _is_almost_empty_mask(~cut_mask, fine_length)
FineGuard ==
    /\ mav_pc = "fine_guard"
    /\ mav_calls' = [mav_calls EXCEPT !.fine_guard = @ + 1]
    /\ IF _is_almost_empty_mask(cut_mask, Value(mav_args.fine_length))
       THEN MavRaise("ValueError", "fine_guard")
       ELSE mav_pc' = "fine_average" /\ UNCHANGED mav_error
    /\ UNCHANGED <<mav_args, cut_mask, data_mav>>
    /\ UNCHANGED <<corrVars, measVars, kmodVars, betaVars, nbpmVars, fitVars, chiVars, uncVars, tiltVars>>

\* the fine moving average
FineAverage ==
    /\ mav_pc = "fine_average"
    /\ data_mav' = _get_interpolated_moving_average(mav_args.values, mav_args.index,
                                                    cut_mask, Value(mav_args.fine_length))
    /\ mav_calls' = [mav_calls EXCEPT !.fine_average = @ + 1]
    /\ mav_pc' = "return"
    /\ UNCHANGED <<mav_args, cut_mask, mav_error>>
    /\ UNCHANGED <<corrVars, measVars, kmodVars, betaVars, nbpmVars, fitVars, chiVars, uncVars, tiltVars>>

\* return data_mav, std_mav, cut_mask
ReturnAverage ==
    /\ mav_pc = "return"
    /\ mav_pc' = "returned"
    /\ UNCHANGED <<mav_args, cut_mask, data_mav, mav_error, mav_calls>>
    /\ UNCHANGED <<corrVars, measVars, kmodVars, betaVars, nbpmVars, fitVars, chiVars, uncVars, tiltVars>>

MavNext ==
    \/ CheckFineOptions
    \/ CoarseMask
    \/ CoarseGuard
    \/ CoarseAverage
    \/ FineMask
    \/ FineGuard
    \/ FineAverage
    \/ ReturnAverage

(***************************************************************************)
(* Claims about get_moving_average                                         *)
(***************************************************************************)
\* points neither missing nor at or beyond min_val / max_val
C9_CoarseSurvivors ==
    {i \in 1..SeriesLen :
        LET v == mav_args.values[i]
        IN  /\ v[2] # 0
            /\ mav_args.min_val # None => v[1] > Value(mav_args.min_val) * v[2]
            /\ mav_args.max_val # None => v[1] < Value(mav_args.max_val) * v[2]}

\* points not missing and closer than fine_cut to the coarse average
C9_FineSurvivors ==
    {i \in 1..SeriesLen :
        LET v == mav_args.values[i]
            m == data_mav[i]
        IN  /\ v[2] # 0
            /\ Abs(v[1] * m[2] - m[1] * v[2]) < Value(mav_args.fine_cut) * m[2] * v[2]}

\* C9: the 'too many points filtered' error of a pass is raised exactly when the
\* points not excluded in that pass number at most the pass's window length: at
\* most `length` (fine_length) of them fail, length + 1 (fine_length + 1) pass.
C9_GuardExact ==
    /\ mav_error = <<"ValueError", "guard">> =>
          Cardinality(C9_CoarseSurvivors) <= mav_args.length
    /\ mav_pc = "average" =>
          Cardinality(C9_CoarseSurvivors) >= mav_args.length + 1
    /\ mav_error = <<"ValueError", "fine_guard">> =>
          Cardinality(C9_FineSurvivors) <= Value(mav_args.fine_length)
    /\ mav_pc = "fine_average" =>
          Cardinality(C9_FineSurvivors) >= Value(mav_args.fine_length) + 1
    /\ mav_pc = "raised" /\ mav_error[1] = "ValueError" =>
          mav_error[2] \in {"guard", "fine_guard"}

\* the coarse guard has refused a series with exactly `length` usable points
C9_Witness ==
    /\ mav_error = <<"ValueError", "guard">>
    /\ mav_args.length = MaxLength
    /\ Cardinality(C9_CoarseSurvivors) = mav_args.length
    /\ mav_args.min_val # None

C10_Both == mav_args.fine_length # None /\ mav_args.fine_cut # None

C10_ExactlyOne == (mav_args.fine_length # None) # (mav_args.fine_cut # None)

C10_InFinePass == mav_pc \in {"fine_mask", "fine_guard", "fine_average"}
                     \/ mav_calls.fine_mask > 0
                     \/ (mav_pc = "raised" /\ mav_error[2] = "fine_mask")

\* C10: whatever values fine_length and fine_cut have when supplied (0 included):
\* with exactly one supplied the call fails with the mismatched-options error
\* before any mask or average; the fine pass runs if and only if both are
\* supplied; with neither only the coarse pass runs.
C10_FineOptions ==
    /\ C10_ExactlyOne /\ mav_pc # "options" =>
          /\ mav_error = <<"NotImplementedError", "options">>
          /\ mav_calls = NoMavCalls
    /\ mav_error = <<"NotImplementedError", "options">> => C10_ExactlyOne
    /\ C10_InFinePass => C10_Both
    /\ mav_pc \in {"return", "returned"} => (mav_calls.fine_average = 1 <=> C10_Both)

\* |a - b| > c for fractions, FALSE when a term is NaN
DeviatesByMoreThan(a, b, c) ==
    /\ ~IsNaN(a) /\ ~IsNaN(b)
    /\ ~RLeq(RSub(a, b), c)  \/  ~RLeq(RSub(b, a), c)

\* C19: in a fine pass that both fine_length and fine_cut have switched on, a
\* non-missing point is excluded if and only if it deviates from the coarse moving
\* average at its position by more than fine_cut, so that a point deviating by
\* exactly fine_cut is retained, and the mask the call returns is the mask of the
\* fine pass.
C19_FineMaskStrict ==
    [][/\ /\ mav_pc = "fine_mask" /\ mav_pc' = "fine_guard"
          /\ bool(mav_args.fine_length) /\ bool(mav_args.fine_cut)
          =>
            \A i \in 1..Len(mav_args.values) :
                ~IsNaN(mav_args.values[i]) =>
                    (cut_mask'[i] <=> DeviatesByMoreThan(mav_args.values[i], data_mav[i],
                                                         <<Value(mav_args.fine_cut), 1>>))
       /\ mav_pc \in {"fine_guard", "fine_average", "return"} => cut_mask' = cut_mask
      ]_vars

\* the window of the average data_mav holds: that of the fine pass once it has run
C20_Length ==
    IF mav_calls.fine_average = 1 THEN Value(mav_args.fine_length) ELSE mav_args.length

\* data_mav is the average over a series none of whose points is excluded
C20_NothingExcluded ==
    /\ mav_pc \in {"fine_mask", "return", "returned"}
    /\ \A i \in 1..Len(cut_mask) : ~cut_mask[i]
    /\ C20_Length >= 1

\* ceil((length-1)/2) and floor((length-1)/2)
C20_Predecessors == C20_Length \div 2

C20_Successors == (C20_Length - 1) \div 2

\* the positions with that many predecessors and successors
C20_Centered ==
    {j \in 1..SeriesLen : j - C20_Predecessors >= 1 /\ j + C20_Successors <= SeriesLen}

\* the mean of the points j - predecessors .. j + successors of the series
C20_MeanAround(j) ==
    LET total == RSum(SubSeq(mav_args.values, j - C20_Predecessors, j + C20_Successors))
    IN  Rat(total[1], total[2] * C20_Length)

\* C20: for a series with no excluded points and a window of `length` points, the
\* moving average at every position with ceil((length-1)/2) predecessors and
\* floor((length-1)/2) successors is the mean of those predecessors, the point itself
\* and those successors; a position nearer to an end has the value of the nearest
\* such position; the output is as long as the input, and a constant series gives
\* the same constant.
C20_CenteredMean ==
    C20_NothingExcluded =>
        /\ Len(data_mav) = Len(mav_args.values)
        /\ C20_Centered # {}
        /\ \A j \in C20_Centered : data_mav[j] = C20_MeanAround(j)
        /\ \A j \in 1..SeriesLen :
              /\ j - C20_Predecessors < 1 => data_mav[j] = data_mav[1 + C20_Predecessors]
              /\ j + C20_Successors > SeriesLen =>
                    data_mav[j] = data_mav[SeriesLen - C20_Successors]
        /\ (\A i \in 1..SeriesLen : mav_args.values[i] = mav_args.values[1]) =>
              \A j \in 1..SeriesLen : data_mav[j] = mav_args.values[1]

\* a window of even length over a series that is not constant: one position at the
\* start is filled, the window has more predecessors than successors
C20_Witness ==
    /\ C20_NothingExcluded
    /\ mav_pc = "returned"
    /\ mav_args.length = 2
    /\ mav_calls.fine_average = 0
    /\ mav_args.values[1] # mav_args.values[2]
    /\ mav_args.values[3] # mav_args.values[4]
    /\ data_mav[1] = data_mav[2]
    /\ data_mav[4] # data_mav[3]

(***************************************************************************)
(* Claims about correct()                                                  *)
(***************************************************************************)
FileVars(file) == {file.lines[i].var : i \in 1..Len(file.lines)}

\* the iteration phase: delta, vars_list and resp_matrix exist
InIterationPhase ==
    pc \in {"solve", "write", "madx", "reload", "update", "rebuild", "knob", "done"}

\* from the end of an iteration up to the next solve
AtIterationEnd ==
    \/ pc \in {"madx", "reload", "update", "rebuild", "knob", "done"}
    \/ pc = "solve" /\ iteration > 0

NegatedValue(v) == [v EXCEPT !.sign = IF @ = "+" THEN "-" ELSE "+"]

SimulatorFailures == {"Simulator failed", "Model file unreadable"}

\* C1: pruning is permanent. After every solve each surviving corrector has
\* |DELTA| > min_corrector_strength; a corrector _filter_by_strength removed is in
\* none of vars_list, the Delta Vector and the response columns from then on, in
\* neither parameter file at the end of that and every later iteration, and not in
\* the knob file; vars_list never grows once the variable list is resolved.
C1_PruningPermanent ==
    [][/\ InIterationPhase' /\ pc' # "solve" =>
            \A i \in 1..Len(delta') : Abs(delta'[i].val) > opt.min_corrector_strength
       /\ InIterationPhase' =>
            pruned' \cap (Range(vars_list') \cup Range(Index(delta'))
                            \cup Range(resp_matrix')) = {}
       /\ AtIterationEnd' =>
            pruned' \cap (FileVars(change_params') \cup FileVars(change_params_correct')) = {}
       /\ pc' = "done" => pruned' \cap Range(Index(knob'.rows)) = {}
       /\ pc # "varlist" => /\ Range(vars_list') \subseteq Range(vars_list)
                            /\ Len(vars_list') <= Len(vars_list)
                            /\ pruned \subseteq pruned']_vars

\* a completed run with the response rebuilt that has pruned a corrector and kept one
C1_Witness ==
    /\ pc = "done"
    /\ opt.max_iter >= 2
    /\ opt.update_response
    /\ pruned # {}
    /\ vars_list # <<>>

C3_SolvesAndSimulatorRuns ==
    /\ pc = "done" => /\ calls.solve = opt.max_iter + 1
                      /\ calls.madx = opt.max_iter
                      /\ calls.tfs_read = opt.max_iter
                      /\ twiss_files = 1..opt.max_iter
    /\ pc = "solve" => /\ calls.solve = iteration
                       /\ calls.madx = iteration
                       /\ calls.tfs_read = iteration
    /\ pc = "write" => /\ calls.solve = iteration + 1
                       /\ calls.madx = iteration
                       /\ calls.tfs_read = iteration
                       /\ twiss_files = 1..iteration
    /\ pc = "madx" => calls.madx = iteration - 1 /\ calls.solve = iteration
    /\ pc \in {"reload", "update", "rebuild"} \/ (pc = "solve" /\ iteration >= 1) =>
          /\ madx_input = change_params.lines
          /\ madx_input = ParamLines(delta)

\* the last iteration of a longest run is about to solve on a non-empty file
C3_Witness ==
    /\ pc = "solve"
    /\ iteration = MaxIter
    /\ madx_input # <<>>
    /\ calls.madx = MaxIter

\* C4: at the end of every completed iteration the forward parameter file has one
\* line per corrector of the pruned variable list, in list order, with the
\* accumulated delta as '+e' writes it, and the correction file has the same
\* correctors in the same order with the sign flipped; nothing older survives.
C4_ParameterFiles ==
    AtIterationEnd =>
        /\ change_params.exists /\ change_params_correct.exists
        /\ Len(change_params.lines) = Len(vars_list)
        /\ Len(change_params_correct.lines) = Len(vars_list)
        /\ \A i \in 1..Len(vars_list) :
              /\ change_params.lines[i].var = vars_list[i]
              /\ delta[i].name = vars_list[i]
              /\ change_params.lines[i].value = FormatE(delta[i].val)
              /\ change_params_correct.lines[i].var = vars_list[i]
              /\ change_params_correct.lines[i].value
                    = NegatedValue(change_params.lines[i].value)

\* a third iteration's files after a corrector of an earlier file was pruned
C4_Witness ==
    /\ pc = "madx"
    /\ iteration >= 2
    /\ pruned # {}
    /\ Len(change_params.lines) >= 1

\* C5: when the simulator run or the reload fails in iteration i >= 1, correct() is
\* left: iteration i has no solve (solves happened in iterations 0..i-1 only), the
\* knob file does not exist, and both parameter files are as iteration i-1 wrote them.
C5_SimulatorFailureAborts ==
    failure \in SimulatorFailures =>
        /\ pc = "raised"
        /\ iteration >= 1
        /\ calls.solve = iteration
        /\ ~knob.exists
        /\ change_params = writeparams(NoFile, delta)
        /\ change_params_correct = writeparams(NoFile, Negated(delta))
        /\ Index(delta) = vars_list
        /\ ~ENABLED CorrNext

\* the simulator failed in the second refresh, with parameter files on disk
C5_Witness ==
    /\ failure = "Simulator failed"
    /\ iteration = 2
    /\ change_params.lines # <<>>

NothingWritten ==
    /\ ~change_params.exists
    /\ ~change_params_correct.exists
    /\ ~knob.exists
    /\ twiss_files = {}

\* C6: with no corrector returned, correct() ends with 'No variables found' having
\* read no measurement, loaded or built no response, run no simulator and written
\* no file; and that error has no other cause.
C6_NoVariables ==
    /\ Len(accel_inst.variables) = 0 /\ pc # "varlist" =>
          /\ pc = "raised"
          /\ failure = "No variables found"
          /\ calls = NoCalls
          /\ NothingWritten
    /\ failure = "No variables found" => Len(accel_inst.variables) = 0

C6_Witness ==
    /\ failure = "No variables found"
    /\ opt.fullresponse_path # None
    /\ pc = "raised"

\* the method's own sub-option is unset
C7_SubOptionUnset ==
    \/ opt.method = "pinv" /\ opt.svd_cut = None
    \/ opt.method = "omp" /\ opt.n_correctors = None

\* C7: with the method's sub-option unset correct() never gets past the solve of
\* iteration 0: nothing is written, the simulator is not run; the method error is
\* raised exactly in that case, so pinv without n_correctors and omp without
\* svd_cut do solve.
C7_MethodOption ==
    /\ C7_SubOptionUnset =>
          /\ NothingWritten
          /\ calls.madx = 0 /\ calls.solve = 0
          /\ iteration = 0
          /\ pc \in {"varlist", "measurement", "response", "setup", "solve", "raised"}
    /\ failure = "Method option needed" =>
          /\ C7_SubOptionUnset
          /\ pc = "raised"
          /\ calls.read_meas = 1
    /\ pc = "write" => ~C7_SubOptionUnset
    /\ pc = "raised" /\ ~C7_SubOptionUnset => failure # "Method option needed"

\* omp without n_correctors has failed in the solve although svd_cut is set
C7_Witness ==
    /\ failure = "Method option needed"
    /\ opt.method = "omp"
    /\ opt.svd_cut # None
    /\ resp_matrix # <<>>

\* C17: the accelerator's _model and _elements are written only in an iteration
\* i >= 1 of a run with update_response set, both with the corrected model of
\* iteration i and before the response builder is called; the builder then reads
\* that model and the rebuilt response matrix has exactly the current, already
\* pruned variable list as columns, so that every solve of such an iteration runs
\* on the model and the response of its own iteration. With update_response unset
\* the fields are never written and the response builder is not called after the
\* setup phase.
C17_UpdateResponseOrder ==
    [][/\ accel_inst' # accel_inst =>
            /\ opt.update_response
            /\ iteration >= 1
            /\ accel_inst'._model = iteration
            /\ accel_inst'._elements = iteration
            /\ accel_inst'.variables = accel_inst.variables
            /\ calls' = calls
       /\ InIterationPhase /\ calls'.create_response # calls.create_response =>
            /\ opt.update_response
            /\ iteration >= 1
            /\ accel_inst._model = iteration
            /\ accel_inst._elements = iteration
            /\ accel_inst' = accel_inst
            /\ vars_list' = vars_list
            /\ resp_matrix' = vars_list
            /\ Range(resp_matrix') \cap pruned = {}
       /\ pc' = "solve" /\ iteration' >= 1 /\ opt.update_response =>
            /\ accel_inst'._model = iteration'
            /\ accel_inst'._elements = iteration'
            /\ resp_matrix' = vars_list'
            /\ calls'.create_response =
                  iteration' + (IF opt.fullresponse_path = None THEN 1 ELSE 0)
       /\ ~opt.update_response =>
            /\ accel_inst' = accel_inst
            /\ accel_inst._model = 0 /\ accel_inst._elements = 0
            /\ InIterationPhase => calls'.create_response = calls.create_response
      ]_vars

\* the response has been rebuilt on the corrected model of a later iteration after a
\* corrector was pruned
C17_Witness ==
    /\ pc = "solve"
    /\ opt.update_response
    /\ iteration >= 1
    /\ accel_inst._model = iteration
    /\ pruned # {}
    /\ vars_list # <<>>
    /\ resp_matrix = vars_list
    /\ Len(resp_matrix) < Len(accel_inst.variables)

\* C18: throughout the iteration phase, and so at the end of every iteration, the
\* row labels of the accumulated Delta Vector, the variable list and the column
\* labels of the combined response matrix are one and the same sequence of distinct
\* corrector names, and the accumulated delta of each surviving corrector is the
\* sum of the increments the solves of iterations 0..current computed for it.
C18_LabelsAndSums ==
    InIterationPhase =>
        /\ Index(delta) = vars_list
        /\ resp_matrix = vars_list
        /\ \A i, j \in 1..Len(vars_list) : vars_list[i] = vars_list[j] => i = j
        /\ DOMAIN increments = Range(vars_list)
        /\ \A i \in 1..Len(delta) : delta[i].val = increments[delta[i].name]

\* a run has ended after several solves and a pruning, and the surviving corrector
\* has a delta that is not the increment of a single solve
C18_Witness ==
    /\ pc = "done"
    /\ calls.solve = MaxIter + 1
    /\ pruned # {}
    /\ vars_list # <<>>
    /\ \E i \in 1..Len(delta) : delta[i].val \notin Increments

(***************************************************************************)
(* kmod/kmod_analysis.py                                                   *)
(***************************************************************************)
PLANES == <<"X", "Y">>

RMul(a, b) == Rat(a[1] * b[1], a[2] * b[2])

\* a / b for b # 0
RDiv(a, b) ==
    IF b[1] < 0 THEN Rat(-(a[1] * b[2]), a[2] * (-b[1])) ELSE Rat(a[1] * b[2], a[2] * b[1])

RAbs(a) == <<Abs(a[1]), a[2]>>

\* np.maximum of two numbers
RMax(a, b) == IF RLeq(a, b) THEN b ELSE a

\* np.zeros((rows, cols)): rows and columns count from 0
zeros(rows, cols) == [r \in 0..(rows - 1) |-> [c \in 0..(cols - 1) |-> 0]]

\* np.eye(n)
eye(n) == [r \in 0..(n - 1) |-> [c \in 0..(n - 1) |-> IF r = c THEN 1 ELSE 0]]

\* -m
Negative(m) == [r \in DOMAIN m |-> [c \in DOMAIN m[r] |-> -m[r][c]]]

\* m[start::2] = src
AssignEverySecond(m, start, src) ==
    [r \in DOMAIN m |->
        IF r >= start /\ (r - start) % 2 = 0 THEN src[(r - start) \div 2] ELSE m[r]]

return_sign_for_errSwapped(n) ==
    AssignEverySecond(AssignEverySecond(zeros(2 * n + 1, n), 2, eye(n)), 1, Negative(eye(n)))

\* return_sign_for_err
return_sign_for_err(n) ==
    AssignEverySecond(AssignEverySecond(zeros(2 * n + 1, n), 1, eye(n)), 2, Negative(eye(n)))

\* the literal sign array of calc_beta_inst, rows and columns counted from 0
SignBetaInst ==
    LET rows == <<<<0, 0>>, <<1, 0>>, <<-1, 0>>, <<0, 1>>, <<0, -1>>>>
    IN  [r \in 0..4 |-> [c \in 0..1 |-> rows[r + 1][c + 1]]]

\* number of error sources get_beta_waist perturbs, and of fits it stores
NumErrorSources == 8

NumFits == 17

\* the POLARITY header a magnet table can carry
Polarities == {-1, 0, 1}

Magnet(name, polarity) == [name |-> name, POLARITY |-> polarity]

\* return_df: the pair (focusing, defocusing), or None when no branch returns
return_df(magnet1_df, magnet2_df, plane) ==
    IF plane = "X"
    THEN IF magnet1_df.POLARITY = 1 /\ magnet2_df.POLARITY = -1
         THEN Some(<<magnet1_df, magnet2_df>>)
         ELSE IF magnet1_df.POLARITY = -1 /\ magnet2_df.POLARITY = 1
              THEN Some(<<magnet2_df, magnet1_df>>)
              ELSE None
    ELSE IF plane = "Y"
         THEN IF magnet1_df.POLARITY = -1 /\ magnet2_df.POLARITY = 1
              THEN Some(<<magnet1_df, magnet2_df>>)
              ELSE IF magnet1_df.POLARITY = 1 /\ magnet2_df.POLARITY = -1
                   THEN Some(<<magnet2_df, magnet1_df>>)
                   ELSE None
         ELSE None

\* what one simplex fit can return: fitresults.x[0], fitresults.x[1]
FitResults == {[c \in 0..1 |-> IF c = 0 THEN 2 ELSE 0], [c \in 0..1 |-> IF c = 0 THEN 3 ELSE 1]}

\* column c of the fits as numbers
Column(rows, c) == [r \in DOMAIN rows |-> <<rows[r][c], 1>>]

\* np.sum(np.maximum(np.absolute(v[1::2] - v[0]), abs(v[1::2] - v[0])) ** 2) from
\* index i on
RECURSIVE EnvelopeSum(_, _)
EnvelopeSum(v, i) ==
    IF i \notin DOMAIN v THEN <<0, 1>>
    ELSE LET m == RMax(RAbs(RSub(v[i], v[0])), RAbs(RSub(v[i], v[0])))
         IN  RAdd(RMul(m, m), EnvelopeSum(v, i + 2))

\* the number whose square root the code reports as the error of the vector v
EnvelopeSquared(v) == EnvelopeSum(v, 1)

\* beta-waist and waist results per plane as calc_betastar and calc_beta_inst read them
PlaneResults == [betawaist : {2, 3}, betawaist_err : {0, 1}, waist : {-1, 0, 2},
                 waist_err : {0, 1}]

ResultsDfs == [{"X", "Y"} -> PlaneResults]

\* where an instrument sits
Positions == {0, 1}

\* (b + sign[:,0] * eb) + (w + sign[:,1] * ew) ** 2 / (b + sign[:,0] * eb)
BetaVector(sgn, b, eb, w, ew) ==
    [r \in DOMAIN sgn |->
        LET bw == <<b + sgn[r][0] * eb, 1>>
            ws == <<w + sgn[r][1] * ew, 1>>
        IN  RAdd(bw, RDiv(RMul(ws, ws), bw))]

KmodIdle ==
    /\ kmod_call = [fn |-> "none"]
    /\ kmod_sign = <<>>
    /\ foc_def = None
    /\ results = <<>>
    /\ kmod_i = 0
    /\ kmod_pc = "idle"
    /\ kmod_error = "none"
    /\ kmod_return = <<>>

KmodInit ==
    /\ kmod_call = [fn |-> "none"]
    /\ kmod_sign = <<>>
    /\ foc_def = None
    /\ results = <<>>
    /\ kmod_i = 0
    /\ kmod_pc = "start"
    /\ kmod_error = "none"
    /\ kmod_return = <<>>

\* return_sign_for_err called on its own
ReturnSignForErr ==
    /\ kmod_pc = "start"
    /\ \E n \in 1..MaxSign :
          /\ kmod_call' = [fn |-> "return_sign_for_err", n |-> n]
          /\ kmod_sign' = return_sign_for_err(n)
          /\ kmod_return' = return_sign_for_err(n)
    /\ kmod_pc' = "returned"
    /\ UNCHANGED <<foc_def, results, kmod_i, kmod_error>>
    /\ UNCHANGED <<corrVars, measVars, mavVars, betaVars, nbpmVars, fitVars, chiVars, uncVars, tiltVars>>

\* get_beta_waist: entry and the kmod_sign matrix
GetBetaWaist ==
    /\ kmod_pc = "start"
    /\ \E p1 \in Polarities, p2 \in Polarities, plane \in {"X", "Y"} :
          kmod_call' = [fn |-> "get_beta_waist", magnet1_df |-> Magnet("magnet1", p1),
                        magnet2_df |-> Magnet("magnet2", p2), plane |-> plane]
    /\ kmod_sign' = return_sign_for_err(NumErrorSources)
    /\ kmod_pc' = "return_df"
    /\ UNCHANGED <<foc_def, results, kmod_i, kmod_error, kmod_return>>
    /\ UNCHANGED <<corrVars, measVars, mavVars, betaVars, nbpmVars, fitVars, chiVars, uncVars, tiltVars>>

\* get_beta_waist: the call of return_df
ReturnDf ==
    /\ kmod_pc = "return_df"
    /\ foc_def' = return_df(kmod_call.magnet1_df, kmod_call.magnet2_df, kmod_call.plane)
    /\ kmod_pc' = "unpack"
    /\ UNCHANGED <<kmod_call, kmod_sign, results, kmod_i, kmod_error, kmod_return>>
    /\ UNCHANGED <<corrVars, measVars, mavVars, betaVars, nbpmVars, fitVars, chiVars, uncVars, tiltVars>>

\* get_beta_waist: foc_magnet_df, def_magnet_df = ..., which cannot unpack None, and
\* results = np.zeros((17, 2))
Unpack ==
    /\ kmod_pc = "unpack"
    /\ IF foc_def = None
       THEN /\ kmod_error' = "TypeError"
            /\ kmod_pc' = "raised"
            /\ UNCHANGED <<results, kmod_i>>
       ELSE /\ results' = zeros(NumFits, 2)
            /\ kmod_i' = 0
            /\ kmod_pc' = "fit"
            /\ UNCHANGED kmod_error
    /\ UNCHANGED <<kmod_call, kmod_sign, foc_def, kmod_return>>
    /\ UNCHANGED <<corrVars, measVars, mavVars, betaVars, nbpmVars, fitVars, chiVars, uncVars, tiltVars>>

\* get_beta_waist: one pass of the loop over the rows of kmod_sign
Fit ==
    /\ kmod_pc = "fit"
    /\ kmod_i \in DOMAIN kmod_sign
    /\ \E x \in FitResults : results' = [results EXCEPT ![kmod_i] = x]
    /\ kmod_i' = kmod_i + 1
    /\ kmod_pc' = IF kmod_i + 1 \in DOMAIN kmod_sign THEN "fit" ELSE "envelope"
    /\ UNCHANGED <<kmod_call, kmod_sign, foc_def, kmod_error, kmod_return>>
    /\ UNCHANGED <<corrVars, measVars, mavVars, betaVars, nbpmVars, fitVars, chiVars, uncVars, tiltVars>>

\* get_beta_waist: the two errors and the return
Envelope ==
    /\ kmod_pc = "envelope"
    /\ kmod_return' = [betawaist |-> results[0][0],
                       betawaist_err_squared |-> EnvelopeSquared(Column(results, 0)),
                       waist |-> results[0][1],
                       waist_err_squared |-> EnvelopeSquared(Column(results, 1))]
    /\ kmod_pc' = "returned"
    /\ UNCHANGED <<kmod_call, kmod_sign, foc_def, results, kmod_i, kmod_error>>
    /\ UNCHANGED <<corrVars, measVars, mavVars, betaVars, nbpmVars, fitVars, chiVars, uncVars, tiltVars>>

\* calc_betastar: entry and the kmod_sign matrix
CalcBetastar ==
    /\ kmod_pc = "start"
    /\ \E df \in ResultsDfs : kmod_call' = [fn |-> "calc_betastar", results_df |-> df]
    /\ kmod_sign' = return_sign_for_err(2)
    /\ kmod_i' = 0
    /\ kmod_return' = [plane \in {} |-> 0]
    /\ kmod_pc' = "betastar"
    /\ UNCHANGED <<foc_def, results, kmod_error>>
    /\ UNCHANGED <<corrVars, measVars, mavVars, betaVars, nbpmVars, fitVars, chiVars, uncVars, tiltVars>>

\* calc_betastar: one pass of the loop over PLANES; the columns are reordered after
\* the last
BetastarOfPlane ==
    /\ kmod_pc = "betastar"
    /\ LET plane == PLANES[kmod_i + 1]
           df == kmod_call.results_df[plane]
           betastar == BetaVector(kmod_sign, df.betawaist, df.betawaist_err, df.waist,
                                  df.waist_err)
       IN  /\ results' = betastar
           /\ kmod_return' = [q \in DOMAIN kmod_return \cup {plane} |->
                                 IF q = plane
                                 THEN [value |-> betastar[0],
                                       err_squared |-> EnvelopeSquared(betastar)]
                                 ELSE kmod_return[q]]
    /\ kmod_i' = kmod_i + 1
    /\ kmod_pc' = IF kmod_i + 1 < Len(PLANES) THEN "betastar" ELSE "returned"
    /\ UNCHANGED <<kmod_call, kmod_sign, foc_def, kmod_error>>
    /\ UNCHANGED <<corrVars, measVars, mavVars, betaVars, nbpmVars, fitVars, chiVars, uncVars, tiltVars>>

\* calc_beta_inst: entry, betas and the kmod_sign array
CalcBetaInst ==
    /\ kmod_pc = "start"
    /\ \E df \in ResultsDfs, position \in Positions :
          kmod_call' = [fn |-> "calc_beta_inst", results_df |-> df, position |-> position]
    /\ kmod_sign' = SignBetaInst
    /\ kmod_i' = 0
    /\ kmod_return' = [plane \in {} |-> 0]
    /\ kmod_pc' = "beta_inst"
    /\ UNCHANGED <<foc_def, results, kmod_error>>
    /\ UNCHANGED <<corrVars, measVars, mavVars, betaVars, nbpmVars, fitVars, chiVars, uncVars, tiltVars>>

\* calc_beta_inst: one pass of the loop over PLANES
BetaInstOfPlane ==
    /\ kmod_pc = "beta_inst"
    /\ LET plane == PLANES[kmod_i + 1]
           df == kmod_call.results_df[plane]
           waist == IF plane = "Y" THEN -df.waist ELSE df.waist
           beta == BetaVector(kmod_sign, df.betawaist, df.betawaist_err,
                              waist - kmod_call.position, df.waist_err)
       IN  /\ results' = beta
           /\ kmod_return' = [q \in DOMAIN kmod_return \cup {plane} |->
                                 IF q = plane
                                 THEN [value |-> beta[0],
                                       err_squared |-> EnvelopeSquared(beta)]
                                 ELSE kmod_return[q]]
    /\ kmod_i' = kmod_i + 1
    /\ kmod_pc' = IF kmod_i + 1 < Len(PLANES) THEN "beta_inst" ELSE "returned"
    /\ UNCHANGED <<kmod_call, kmod_sign, foc_def, kmod_error>>
    /\ UNCHANGED <<corrVars, measVars, mavVars, betaVars, nbpmVars, fitVars, chiVars, uncVars, tiltVars>>

KmodNext ==
    \/ ReturnSignForErr
    \/ GetBetaWaist
    \/ ReturnDf
    \/ Unpack
    \/ Fit
    \/ Envelope
    \/ CalcBetastar
    \/ BetastarOfPlane
    \/ CalcBetaInst
    \/ BetaInstOfPlane

(***************************************************************************)
(* Claims about kmod_analysis                                              *)
(***************************************************************************)
\* the n a sign matrix in the state was asked for
C11_N ==
    IF kmod_call.fn = "return_sign_for_err" THEN kmod_call.n
    ELSE IF kmod_call.fn = "get_beta_waist" THEN NumErrorSources
         ELSE 2

\* C11: for every n >= 1, return_sign_for_err(n) has exactly 2n+1 rows and n
\* columns, row 0 is all zero, and for every i in 1..n row 2i-1 has +1 in column
\* i-1 and 0 elsewhere and row 2i has -1 in column i-1 and 0 elsewhere.
C11_SignMatrix ==
    kmod_call.fn \in {"return_sign_for_err", "get_beta_waist", "calc_betastar"} =>
        /\ DOMAIN kmod_sign = 0..(2 * C11_N)
        /\ \A r \in DOMAIN kmod_sign : DOMAIN kmod_sign[r] = 0..(C11_N - 1)
        /\ \A c \in 0..(C11_N - 1) : kmod_sign[0][c] = 0
        /\ \A i \in 1..C11_N : \A c \in 0..(C11_N - 1) :
              /\ kmod_sign[2 * i - 1][c] = (IF c = i - 1 THEN 1 ELSE 0)
              /\ kmod_sign[2 * i][c] = (IF c = i - 1 THEN -1 ELSE 0)
        /\ kmod_call.fn = "return_sign_for_err" => kmod_return = kmod_sign

\* the largest matrix asked for on its own has been returned
C11_Witness ==
    /\ kmod_call.fn = "return_sign_for_err"
    /\ kmod_pc = "returned"
    /\ kmod_call.n = MaxSign
    /\ kmod_return[2 * MaxSign][MaxSign - 1] = -1
    /\ kmod_return[2 * MaxSign - 1][MaxSign - 1] = 1

\* a >= b * b
C12_SquareAtMost(b, a) == RLeq(RMul(b, b), a)

\* the error, squared, covers the deviation of rows 2i-1 and 2i of v from row 0 for
\* every perturbation pair i
C12_Covers(err_squared, v, pairs) ==
    \A i \in 1..pairs :
        /\ C12_SquareAtMost(RSub(v[2 * i - 1], v[0]), err_squared)
        /\ C12_SquareAtMost(RSub(v[2 * i], v[0]), err_squared)

\* C12: the error of the sign-permutation envelope (beta-waist and waist errors of
\* get_beta_waist over its 17 fits, beta-star error of calc_betastar and
\* instrument-beta error of calc_beta_inst over their 5 rows) is, for every
\* perturbation pair (row 2i-1, row 2i), at least the absolute deviation from the
\* nominal row 0 of the plus-perturbed result and also of the minus-perturbed one.
C12_EnvelopeCoversBothSigns ==
    /\ kmod_call.fn = "get_beta_waist" /\ kmod_pc = "returned" =>
          /\ C12_Covers(kmod_return.betawaist_err_squared, Column(results, 0),
                        NumErrorSources)
          /\ C12_Covers(kmod_return.waist_err_squared, Column(results, 1),
                        NumErrorSources)
    /\ kmod_call.fn \in {"calc_betastar", "calc_beta_inst"} /\ kmod_i >= 1 =>
          C12_Covers(kmod_return[PLANES[kmod_i]].err_squared, results, 2)

\* an unrecognised combination of polarities for the plane of the call
C13_Unrecognised ==
    LET p1 == kmod_call.magnet1_df.POLARITY
        p2 == kmod_call.magnet2_df.POLARITY
    IN  ~(p1 = 1 /\ p2 = -1) /\ ~(p1 = -1 /\ p2 = 1)

\* the magnet of the call with the given polarity
C13_MagnetOf(polarity) ==
    IF kmod_call.magnet1_df.POLARITY = polarity
    THEN kmod_call.magnet1_df
    ELSE kmod_call.magnet2_df

\* C13: return_df returns the pair (focusing magnet, defocusing magnet) when the
\* polarities are (+1, -1) or (-1, +1), the magnet with polarity +1 being the
\* focusing one in plane X and the magnet with polarity -1 in plane Y; for every
\* other combination it signals a configuration error instead of returning a
\* result.
C13_ReturnDf ==
    kmod_call.fn = "get_beta_waist" /\ kmod_pc \notin {"return_df"} =>
        IF C13_Unrecognised
        THEN /\ kmod_pc = "raised"
             /\ kmod_error = "configuration error"
             /\ foc_def = None
        ELSE /\ kmod_error = "none"
             /\ foc_def = Some(<<C13_MagnetOf(IF kmod_call.plane = "X" THEN 1 ELSE -1),
                                 C13_MagnetOf(IF kmod_call.plane = "X" THEN -1 ELSE 1)>>)

(***************************************************************************)
(* optics_measurements/beta_from_phase.py: calculate()                     *)
(***************************************************************************)
METH_3BPM == "3BPM method"

METH_A_NBPM == "Analytical N-BPM method"

METH_NO_ERR == "No Errors"

NoErrorsWarning == "No systematic errors were given or no element was found"

\* a tune of 1 in the unit of tune_dict
TuneUnit == 1000

\* q % 1 of a tune
Mod1(q) == q % TuneUnit

TuneDicts ==
    {[Q |-> 280, QM |-> 62310, QF |-> 270, QFM |-> 62320],
     [Q |-> 280, QM |-> 310, QF |-> 270, QFM |-> 320]}

MeasInputs ==
    [compensation : {"none", "model", "equation"},
     excitation : BOOLEAN,
     three_bpm_method : BOOLEAN,
     has_best_knowledge : BOOLEAN,
     error_defs_path : {None, Some("errordefs")},
     range_of_bpms : {5}]

\* the element tables the accelerator can return: S, K1L, K2L, MU, BET per row, of
\* which the uncertainties read K1L
ElementTables ==
    {[i \in 1..NumElements |-> [NAME |-> i, K1L |-> k[i]]] : k \in [1..NumElements -> {0, 1}]}

\* a row of the error-definition file, its PATTERN given by the rows it selects
ErrDefRows ==
    [mask : SUBSET (1..NumElements), dK1 : {0, 1}, dX : {0, 1}, dS : {0, 1},
     MAINFIELD : {"BPM", "QUAD"}]

RECURSIVE SeqsUpTo(_, _)
SeqsUpTo(S, n) ==
    IF n = 0 THEN {<<>>}
    ELSE LET shorter == SeqsUpTo(S, n - 1)
         IN  shorter \cup {Append(q, x) : q \in {r \in shorter : Len(r) = n - 1}, x \in S}

ErrDefs == SeqsUpTo(ErrDefRows, MaxErrDefs)

\* twiss_full.assign(UNC=False, dK1=0, KdS=0, mKdS=0, dX=0, BPMdS=0)
AssignColumns(twiss_full) ==
    [i \in 1..Len(twiss_full) |->
        [NAME |-> twiss_full[i].NAME, K1L |-> twiss_full[i].K1L, UNC |-> FALSE, dK1 |-> 0,
         KdS |-> 0, mKdS |-> 0, dX |-> 0, BPMdS |-> 0]]

\* one pass of the loop over the uncertainty definitions
ApplyErrDef(twiss_full, def) ==
    [i \in 1..Len(twiss_full) |->
        IF i \in def.mask
        THEN LET row == twiss_full[i]
             IN  [row EXCEPT
                    !.dK1 = (def.dK1 * row.K1L) * (def.dK1 * row.K1L),
                    !.dX = def.dX * 2,
                    !.BPMdS = IF def.MAINFIELD = "BPM" THEN def.dS * def.dS ELSE @,
                    !.KdS = IF def.MAINFIELD = "BPM" THEN @
                            ELSE (def.dS * row.K1L) * (def.dS * row.K1L),
                    !.UNC = TRUE]
        ELSE twiss_full[i]]

RECURSIVE ApplyErrDefs(_, _)
ApplyErrDefs(twiss_full, errdefs) ==
    IF errdefs = <<>> THEN twiss_full
    ELSE ApplyErrDefs(ApplyErrDef(twiss_full, Head(errdefs)), Tail(errdefs))

RollIndexOpposite(i, shift, n) == ((i - 1 + shift) % n) + 1

\* np.roll(a, shift)[i] for a of length n, positions from 1
RollIndex(i, shift, n) == ((i - 1 - shift) % n) + 1

\* _assign_uncertainties: the rows with UNC set
_assign_uncertainties(twiss_full, errdefs) ==
    LET filled == ApplyErrDefs(AssignColumns(twiss_full), errdefs)
        n == Len(filled)
        rolled == [i \in 1..n |->
                      [filled[i] EXCEPT
                         !.mKdS = filled[RollIndex(i, 1, n)].KdS,
                         !.UNC = Abs(filled[RollIndex(i, -1, n)].dK1) >= 1 \/ @]]
    IN  SelectSeq(rolled, LAMBDA row : row.UNC)

errors_assignedWithoutKdS(elems) ==
    Cardinality({i \in 1..Len(elems) : elems[i].dK1 # 0})
        + Cardinality({i \in 1..Len(elems) : elems[i].dX # 0}) > 0

\* len(dK1.nonzero()[0]) + len(dX.nonzero()[0]) + len(KdS.nonzero()[0]) > 0
errors_assigned(elems) ==
    Cardinality({i \in 1..Len(elems) : elems[i].dK1 # 0})
        + Cardinality({i \in 1..Len(elems) : elems[i].dX # 0})
        + Cardinality({i \in 1..Len(elems) : elems[i].KdS # 0}) > 0

UseDrivenEither(compensation, excitation) == compensation = "none" \/ excitation

\* meas_input.compensation == "none" and meas_input.accelerator.excitation
UseDriven(compensation, excitation) == compensation = "none" /\ excitation

NoBetaCalls == [get_driven_tfs |-> 0, get_model_tfs |-> 0, get_best_knowledge_model_tfs |-> 0,
                get_elements_tfs |-> 0, get_errordefspath |-> 0, read_errdefs |-> 0,
                betas_alphas_from_phase |-> 0]

BetaIdle ==
    /\ meas_input = [compensation |-> "none", excitation |-> FALSE,
                     three_bpm_method |-> FALSE, has_best_knowledge |-> FALSE,
                     error_defs_path |-> None, range_of_bpms |-> 5]
    /\ tune_dict = [Q |-> 0, QM |-> 0, QF |-> 0, QFM |-> 0]
    /\ meas_and_model_tunes = <<>>
    /\ model = "none"
    /\ bk_model = "none"
    /\ elements = <<>>
    /\ error_method = "none"
    /\ beta_log = {}
    /\ beta_calls = NoBetaCalls
    /\ beta_used = <<>>
    /\ header = <<>>
    /\ beta_pc = "idle"
    /\ beta_error = "none"

BetaInit ==
    /\ meas_input \in MeasInputs
    /\ tune_dict \in TuneDicts
    /\ meas_and_model_tunes = <<>>
    /\ model = "none"
    /\ bk_model = "none"
    /\ elements = <<>>
    /\ error_method = "none"
    /\ beta_log = {}
    /\ beta_calls = NoBetaCalls
    /\ beta_used = <<>>
    /\ header = <<>>
    /\ beta_pc = "tunes"
    /\ beta_error = "none"

\* the tune pair and the models: driven, or free with the best-knowledge model and
\* the nominal one in its place on AttributeError
SelectTunesAndModel ==
    /\ beta_pc = "tunes"
    /\ IF UseDriven(meas_input.compensation, meas_input.excitation)
       THEN /\ meas_and_model_tunes' = <<tune_dict.Q, Mod1(tune_dict.QM)>>
            /\ model' = "driven"
            /\ bk_model' = "driven"
            /\ beta_calls' = [beta_calls EXCEPT !.get_driven_tfs = @ + 1]
       ELSE /\ meas_and_model_tunes' = <<tune_dict.QF, Mod1(tune_dict.QFM)>>
            /\ model' = "nominal"
            /\ bk_model' = IF meas_input.has_best_knowledge THEN "best_knowledge"
                           ELSE "nominal"
            /\ beta_calls' = [beta_calls EXCEPT !.get_model_tfs = @ + 1,
                                                !.get_best_knowledge_model_tfs = @ + 1]
    /\ beta_pc' = "elements"
    /\ UNCHANGED <<meas_input, tune_dict, elements, error_method, beta_log, beta_used,
                   header, beta_error>>
    /\ UNCHANGED <<corrVars, measVars, mavVars, kmodVars, nbpmVars, fitVars, chiVars, uncVars, tiltVars>>

\* accelerator.get_elements_tfs().loc[:, [...]]
GetElements ==
    /\ beta_pc = "elements"
    /\ elements' \in ElementTables
    /\ beta_calls' = [beta_calls EXCEPT !.get_elements_tfs = @ + 1]
    /\ beta_pc' = "method"
    /\ UNCHANGED <<meas_input, tune_dict, meas_and_model_tunes, model, bk_model,
                   error_method, beta_log, beta_used, header, beta_error>>
    /\ UNCHANGED <<corrVars, measVars, mavVars, kmodVars, nbpmVars, fitVars, chiVars, uncVars, tiltVars>>

\* the three-BPM flag is set
ThreeBpmMethod ==
    /\ beta_pc = "method"
    /\ meas_input.three_bpm_method
    /\ error_method' = METH_3BPM
    /\ beta_pc' = "betas"
    /\ UNCHANGED <<meas_input, tune_dict, meas_and_model_tunes, model, bk_model, elements,
                   beta_log, beta_calls, beta_used, header, beta_error>>
    /\ UNCHANGED <<corrVars, measVars, mavVars, kmodVars, nbpmVars, fitVars, chiVars, uncVars, tiltVars>>

\* the error definitions: path, uncertainties, errors_assigned, the warning, the label
ErrorDefinitions ==
    /\ beta_pc = "method"
    /\ ~meas_input.three_bpm_method
    /\ IF meas_input.error_defs_path = None
       THEN /\ beta_error' = "IOError"
            /\ beta_pc' = "raised"
            /\ beta_calls' = [beta_calls EXCEPT !.get_errordefspath = @ + 1]
            /\ UNCHANGED <<elements, error_method, beta_log>>
       ELSE \E errdefs \in ErrDefs :
               LET assigned == _assign_uncertainties(elements, errdefs)
               IN  /\ elements' = assigned
                   /\ beta_log' = IF errors_assigned(assigned) THEN beta_log
                                  ELSE beta_log \cup {NoErrorsWarning}
                   /\ error_method' = IF errors_assigned(assigned) THEN METH_A_NBPM
                                      ELSE METH_NO_ERR
                   /\ beta_calls' = [beta_calls EXCEPT !.get_errordefspath = @ + 1,
                                                       !.read_errdefs = @ + 1]
                   /\ beta_pc' = "betas"
                   /\ UNCHANGED beta_error
    /\ UNCHANGED <<meas_input, tune_dict, meas_and_model_tunes, model, bk_model, beta_used,
                   header>>
    /\ UNCHANGED <<corrVars, measVars, mavVars, kmodVars, nbpmVars, fitVars, chiVars, uncVars, tiltVars>>

\* betas_alphas_from_phase with the locals; an exception of it leaves calculate()
BetasAlphasFromPhase ==
    /\ beta_pc = "betas"
    /\ beta_calls' = [beta_calls EXCEPT !.betas_alphas_from_phase = @ + 1]
    /\ beta_used' = [bk_model |-> bk_model, model |-> model, elements |-> elements,
                     errors_method |-> error_method,
                     meas_and_model_tunes |-> meas_and_model_tunes,
                     range_of_bpms |-> meas_input.range_of_bpms]
    /\ \E ok \in BOOLEAN :
          IF ok
          THEN beta_pc' = "header" /\ UNCHANGED beta_error
          ELSE beta_pc' = "raised" /\ beta_error' = "ValueError"
    /\ UNCHANGED <<meas_input, tune_dict, meas_and_model_tunes, model, bk_model, elements,
                   error_method, beta_log, header>>
    /\ UNCHANGED <<corrVars, measVars, mavVars, kmodVars, nbpmVars, fitVars, chiVars, uncVars, tiltVars>>

\* _get_header and the return
GetHeader ==
    /\ beta_pc = "header"
    /\ header' = [RangeOfBPMs |-> IF error_method = METH_3BPM THEN Some("Adjacent")
                                  ELSE Some(meas_input.range_of_bpms),
                  ErrorsFrom |-> error_method]
    /\ beta_pc' = "returned"
    /\ UNCHANGED <<meas_input, tune_dict, meas_and_model_tunes, model, bk_model, elements,
                   error_method, beta_log, beta_calls, beta_used, beta_error>>
    /\ UNCHANGED <<corrVars, measVars, mavVars, kmodVars, nbpmVars, fitVars, chiVars, uncVars, tiltVars>>

BetaNext ==
    \/ SelectTunesAndModel
    \/ GetElements
    \/ ThreeBpmMethod
    \/ ErrorDefinitions
    \/ BetasAlphasFromPhase
    \/ GetHeader

(***************************************************************************)
(* Claims about beta_from_phase.calculate                                  *)
(***************************************************************************)
\* calculate() has passed the choice of the error method
C14_PastMethod == beta_pc \in {"betas", "header", "returned", "raised"}

\* a retained element has a nonzero dK1, dX or KdS term
C14_SomeErrorTerm ==
    \E i \in 1..Len(elements) :
        elements[i].dK1 # 0 \/ elements[i].dX # 0 \/ elements[i].KdS # 0

\* C14: with the three-BPM flag set the label is '3BPM method' and the
\* error-definition location is never queried; otherwise, when the accelerator
\* reports no error-definition location, the run fails before any beta is
\* computed; otherwise the label is 'Analytical N-BPM method' when a retained
\* element has a nonzero dK1, dX or KdS term, and 'No Errors' with a logged warning
\* and no failure when none has.
C14_ErrorMethod ==
    /\ meas_input.three_bpm_method =>
          /\ beta_calls.get_errordefspath = 0
          /\ beta_calls.read_errdefs = 0
          /\ C14_PastMethod => error_method = METH_3BPM
    /\ ~meas_input.three_bpm_method /\ meas_input.error_defs_path = None =>
          /\ beta_calls.betas_alphas_from_phase = 0
          /\ beta_used = <<>>
          /\ beta_pc \notin {"betas", "header", "returned"}
          /\ C14_PastMethod => beta_pc = "raised" /\ beta_error = "IOError"
    /\ ~meas_input.three_bpm_method /\ meas_input.error_defs_path # None /\ C14_PastMethod =>
          /\ beta_calls.get_errordefspath = 1
          /\ beta_error # "IOError"
          /\ error_method = (IF C14_SomeErrorTerm THEN METH_A_NBPM ELSE METH_NO_ERR)
          /\ NoErrorsWarning \in beta_log <=> ~C14_SomeErrorTerm
    /\ beta_used # <<>> => beta_used.errors_method = error_method
    /\ beta_pc = "returned" => header.ErrorsFrom = error_method
    /\ error_method # METH_NO_ERR => beta_log = {}

\* a run has returned with 'No Errors' although the error definitions kept an element
C14_Witness ==
    /\ beta_pc = "returned"
    /\ error_method = METH_NO_ERR
    /\ elements # <<>>
    /\ NoErrorsWarning \in beta_log
    /\ header.ErrorsFrom = METH_NO_ERR

\* the fractional part of a tune given in thousandths
C16_Fraction(q) == q - 1000 * (q \div 1000)

\* C16: the driven tune pair (Q, QM mod 1) and the driven model are used if and only
\* if compensation is 'none' and the accelerator was excited; in every other case
\* the free tune pair (QF, QFM mod 1) and the nominal model are used together with
\* the best-knowledge model, and when the accelerator does not support a
\* best-knowledge model the nominal model is used in its place without failing.
C16_TunesAndModels ==
    beta_pc # "tunes" =>
        /\ IF meas_input.compensation = "none" /\ meas_input.excitation
           THEN /\ meas_and_model_tunes = <<tune_dict.Q, C16_Fraction(tune_dict.QM)>>
                /\ model = "driven"
                /\ bk_model = "driven"
                /\ beta_calls.get_model_tfs = 0
           ELSE /\ meas_and_model_tunes = <<tune_dict.QF, C16_Fraction(tune_dict.QFM)>>
                /\ model = "nominal"
                /\ bk_model = (IF meas_input.has_best_knowledge THEN "best_knowledge"
                               ELSE "nominal")
                /\ beta_calls.get_driven_tfs = 0
        /\ beta_error \notin {"AttributeError"}
        /\ beta_used # <<>> =>
              /\ beta_used.model = model
              /\ beta_used.bk_model = bk_model
              /\ beta_used.meas_and_model_tunes = meas_and_model_tunes

\* an excited accelerator with a compensation, and without best-knowledge model,
\* has gone through on the nominal model and the free tunes
C16_Witness ==
    /\ beta_pc = "returned"
    /\ meas_input.excitation
    /\ meas_input.compensation # "none"
    /\ ~meas_input.has_best_knowledge
    /\ beta_used.bk_model = "nominal"
    /\ beta_used.meas_and_model_tunes = <<270, 320>>
    /\ tune_dict.QFM = 62320

(***************************************************************************)
(* optics_measurements/beta_from_phase.py: n_bpm_method                    *)
(***************************************************************************)
\* a k x k matrix of whole numbers, rows and columns from 1
Matrix1(a) == <<<<a>>>>

Matrix2(a, b, d) == <<<<a, b>>, <<b, d>>>>

\* what the combinations of a probed BPM can give: betas, alphas and the two
\* covariance matrices mat_v_beta, mat_v_alpha, of as many rows as combinations
CovarianceMatrices(k) ==
    IF k = 0 THEN {<<>>}
    ELSE IF k = 1 THEN {Matrix1(0), Matrix1(1)}
         ELSE {Matrix2(0, 0, 0), Matrix2(1, -1, 1), Matrix2(1, 1, 1), Matrix2(2, 0, 1)}

Combinations ==
    UNION {[betas : {[i \in 1..k |-> 2 * i]}, alphas : {[i \in 1..k |-> 3 - 2 * i]},
            mat_v_beta : CovarianceMatrices(k), mat_v_alpha : CovarianceMatrices(k)] :
           k \in 0..2}

\* np.any(mat)
any(mat) == \E i \in 1..Len(mat) : \E j \in 1..Len(mat[i]) : mat[i][j] # 0

\* np.linalg.pinv(mat, rcond=RCOND) of a symmetric matrix of at most two rows:
\* the inverse, or for rank one the matrix over the square of its trace, or zero
pinv(mat) ==
    IF Len(mat) = 0 THEN <<>>
    ELSE IF Len(mat) = 1
         THEN IF mat[1][1] = 0 THEN <<<<<<0, 1>>>>>> ELSE <<<<RDiv(<<1, 1>>, <<mat[1][1], 1>>)>>>>
         ELSE LET a == mat[1][1]
                  b == mat[1][2]
                  d == mat[2][2]
                  det == a * d - b * b
                  tr == a + d
              IN  IF det # 0
                  THEN <<<<RDiv(<<d, 1>>, <<det, 1>>), RDiv(<<-b, 1>>, <<det, 1>>)>>,
                         <<RDiv(<<-b, 1>>, <<det, 1>>), RDiv(<<a, 1>>, <<det, 1>>)>>>>
                  ELSE IF tr # 0
                       THEN [i \in 1..2 |-> [j \in 1..2 |->
                                RDiv(<<mat[i][j], 1>>, <<tr * tr, 1>>)]]
                       ELSE [i \in 1..2 |-> [j \in 1..2 |-> <<0, 1>>]]

\* np.sum(mat_inv, axis=1)
RowSums(mat) == [i \in 1..Len(mat) |-> RSum(mat[i])]

\* np.dot of two vectors of fractions
Dot(u, v) == RSum([i \in 1..Len(u) |-> RMul(u[i], v[i])])

\* np.dot(mat, wb) for a matrix of whole numbers
MatVec(mat, wb) ==
    [i \in 1..Len(mat) |-> RSum([j \in 1..Len(wb) |-> RMul(<<mat[i][j], 1>>, wb[j])])]

\* _covariant_weighting: the value and the error, whose square is kept, or ValueError
_covariant_weighting(mat, col) ==
    LET wb == RowSums(pinv(mat))
        mat_inv_sum == RSum(wb)
    IN  IF mat_inv_sum[1] = 0
        THEN [raises |-> TRUE, value |-> <<0, 1>>, err_squared |-> <<0, 1>>]
        ELSE [raises |-> FALSE,
              value |-> RDiv(Dot(wb, [i \in 1..Len(col) |-> <<col[i], 1>>]), mat_inv_sum),
              err_squared |-> RDiv(Dot(wb, MatVec(mat, wb)), RMul(mat_inv_sum, mat_inv_sum))]

\* a row of np.zeros((n, 4))
ZeroRow == [beti |-> <<0, 1>>, beterr_squared |-> <<0, 1>>, alfi |-> <<0, 1>>,
            alferr_squared |-> <<0, 1>>]

NbpmIdle ==
    /\ covariances = <<>>
    /\ indx = 0
    /\ betas_alfas = <<>>
    /\ n_comb = <<>>
    /\ beta_df = <<>>
    /\ nbpm_pc = "idle"
    /\ nbpm_error = "none"

\* betas_alfas = np.zeros(...), n_comb = np.zeros(nbpms, dtype=int), the loop begins
NbpmInit ==
    /\ covariances = <<>>
    /\ indx = 0
    /\ betas_alfas = [i \in 1..NumBpms |-> ZeroRow]
    /\ n_comb = [i \in 1..NumBpms |-> 0]
    /\ beta_df = <<>>
    /\ nbpm_pc = "loop"
    /\ nbpm_error = "none"

\* one pass of the loop over the probed BPMs: the combinations, the covariance
\* matrices, and either the weighting or the `continue`
ProbeBpm ==
    /\ nbpm_pc = "loop"
    /\ indx < NumBpms
    /\ \E c \in Combinations :
          /\ covariances' = Append(covariances, c)
          /\ IF any(c.mat_v_beta) /\ any(c.mat_v_alpha)
             THEN LET b == _covariant_weighting(c.mat_v_beta, c.betas)
                      a == _covariant_weighting(c.mat_v_alpha, c.alphas)
                  IN  IF b.raises \/ a.raises
                      THEN /\ nbpm_error' = "ValueError"
                           /\ nbpm_pc' = "raised"
                           /\ UNCHANGED <<indx, betas_alfas, n_comb>>
                      ELSE /\ n_comb' = [n_comb EXCEPT ![indx + 1] = Len(c.betas)]
                           /\ betas_alfas' =
                                 [betas_alfas EXCEPT ![indx + 1] =
                                     [beti |-> b.value, beterr_squared |-> b.err_squared,
                                      alfi |-> a.value, alferr_squared |-> a.err_squared]]
                           /\ indx' = indx + 1
                           /\ UNCHANGED <<nbpm_pc, nbpm_error>>
             ELSE /\ indx' = indx + 1
                  /\ UNCHANGED <<betas_alfas, n_comb, nbpm_pc, nbpm_error>>
    /\ UNCHANGED beta_df
    /\ UNCHANGED <<corrVars, measVars, mavVars, kmodVars, betaVars, fitVars, chiVars, uncVars, tiltVars>>

\* the columns of beta_df, the rows with NCOMB > 0, the return
ReturnBetaDf ==
    /\ nbpm_pc = "loop"
    /\ indx = NumBpms
    /\ beta_df' = SelectSeq([i \in 1..NumBpms |->
                                [NAME |-> i, BET |-> betas_alfas[i].beti,
                                 ERRBET_squared |-> betas_alfas[i].beterr_squared,
                                 ALF |-> betas_alfas[i].alfi,
                                 ERRALF_squared |-> betas_alfas[i].alferr_squared,
                                 NCOMB |-> n_comb[i]]],
                            LAMBDA row : row.NCOMB > 0)
    /\ nbpm_pc' = "returned"
    /\ UNCHANGED <<covariances, indx, betas_alfas, n_comb, nbpm_error>>
    /\ UNCHANGED <<corrVars, measVars, mavVars, kmodVars, betaVars, fitVars, chiVars, uncVars, tiltVars>>

NbpmNext ==
    \/ ProbeBpm
    \/ ReturnBetaDf

\* the sum of the pseudo-inverse weights of a covariance matrix is zero
C15_WeightsSumToZero(mat) == RSum(RowSums(pinv(mat)))[1] = 0

\* the covariance assembled for a probed BPM is degenerate
C15_Degenerate(c) ==
    \/ Len(c.betas) = 0
    \/ ~any(c.mat_v_beta)
    \/ ~any(c.mat_v_alpha)
    \/ C15_WeightsSumToZero(c.mat_v_beta)
    \/ C15_WeightsSumToZero(c.mat_v_alpha)

\* C15: a probed BPM whose assembled covariance is degenerate (no valid BPM pair,
\* an all-zero beta or alpha covariance matrix, or pseudo-inverse weights that sum
\* to zero) is skipped without failing the run: n_bpm_method returns normally,
\* that BPM is absent from the result table and every other BPM is present, so the
\* row count drops by exactly the number of skipped BPMs.
C15_DegenerateSkipped ==
    /\ nbpm_error = "none"
    /\ nbpm_pc # "raised"
    /\ nbpm_pc = "returned" =>
          /\ \A i \in 1..NumBpms :
                (\E r \in 1..Len(beta_df) : beta_df[r].NAME = i)
                    <=> ~C15_Degenerate(covariances[i])
          /\ Len(beta_df) =
                NumBpms - Cardinality({i \in 1..NumBpms : C15_Degenerate(covariances[i])})

(***************************************************************************)
(* kmod/kmod_analysis.py: calc_tune, calc_k, return_fit_input              *)
(***************************************************************************)
\* np.average of a sequence of whole numbers: NaN for an empty one
Average(s) ==
    IF s = <<>> THEN NaN ELSE RDiv(RSum([i \in 1..Len(s) |-> <<s[i], 1>>]), <<Len(s), 1>>)

\* df.where(df[CLEANED_<plane>] == True)[col].dropna()
Cleaned(df, plane, col) ==
    LET kept == SelectSeq(df.rows,
                          LAMBDA row : IF plane = "X" THEN row.CLEANED_X ELSE row.CLEANED_Y)
    IN  [i \in 1..Len(kept) |-> kept[i][col]]

FitIdle ==
    /\ magnet_df = [rows |-> <<>>, headers |-> <<>>]
    /\ fit_input = None
    /\ fit_pc = "idle"

\* a magnet's table as analyse() receives it: measured K and tunes, the cleaning
\* flags of the two planes, and the headers POLARITY and LENGTH
FitInit ==
    /\ \E rows \in [1..NumRows -> [K : {1, 3}, TUNEX : {2}, TUNEY : {4},
                                   CLEANED_X : BOOLEAN, CLEANED_Y : BOOLEAN]],
          polarity \in {-1, 1} :
          magnet_df = [rows |-> [i \in 1..NumRows |-> [rows[i] EXCEPT !.TUNEX = 2 + i,
                                                                     !.TUNEY = 4 + 2 * i]],
                       headers |-> [POLARITY |-> polarity, LENGTH |-> 2, K |-> NaN,
                                    TUNEX |-> NaN, TUNEY |-> NaN]]
    /\ fit_input = None
    /\ fit_pc = "calc_tune"

\* calc_tune
CalcTune ==
    /\ fit_pc = "calc_tune"
    /\ magnet_df' = [magnet_df EXCEPT
                        !.headers.TUNEX = Average(Cleaned(magnet_df, "X", "TUNEX")),
                        !.headers.TUNEY = Average(Cleaned(magnet_df, "Y", "TUNEY"))]
    /\ fit_pc' = "calc_k"
    /\ UNCHANGED fit_input
    /\ UNCHANGED <<corrVars, measVars, mavVars, kmodVars, betaVars, nbpmVars, chiVars, uncVars, tiltVars>>

\* calc_k: two assignments to the one header K, the second after the first
calc_k(df) ==
    LET first == [df EXCEPT !.headers.K = Average(Cleaned(df, "X", "K"))]
    IN  [first EXCEPT !.headers.K = Average(Cleaned(first, "Y", "K"))]

CalcK ==
    /\ fit_pc = "calc_k"
    /\ magnet_df' = calc_k(magnet_df)
    /\ fit_pc' = "do_fit"
    /\ UNCHANGED fit_input
    /\ UNCHANGED <<corrVars, measVars, mavVars, kmodVars, betaVars, nbpmVars, chiVars, uncVars, tiltVars>>

\* return_fit_input: x[0, :] and x[1, :], NaN where the header read is NaN
return_fit_input(df, plane) ==
    LET k == Cleaned(df, plane, "K")
        sign == IF plane = "X" THEN df.headers.POLARITY ELSE -1 * df.headers.POLARITY
    IN  [plane |-> plane,
         x0 |-> [i \in 1..Len(k) |->
                    IF IsNaN(df.headers.K) THEN NaN
                    ELSE RMul(RMul(<<sign, 1>>, RSub(<<k[i], 1>>, df.headers.K)),
                              <<df.headers.LENGTH, 1>>)],
         x1 |-> [i \in 1..Len(k) |->
                    IF plane = "X" THEN df.headers.TUNEX ELSE df.headers.TUNEY]]

\* do_fit(magnet_df, plane) up to its call of return_fit_input
ReturnFitInput ==
    /\ fit_pc = "do_fit"
    /\ \E plane \in Range(PLANES) : fit_input' = Some(return_fit_input(magnet_df, plane))
    /\ fit_pc' = "returned"
    /\ UNCHANGED magnet_df
    /\ UNCHANGED <<corrVars, measVars, mavVars, kmodVars, betaVars, nbpmVars, chiVars, uncVars, tiltVars>>

FitNext ==
    \/ CalcTune
    \/ CalcK
    \/ ReturnFitInput

\* C21: after calc_k, the average strength return_fit_input subtracts from K for a
\* plane is the average of K over the rows flagged cleaned for that plane, for X
\* and for Y alike and for every assignment of the two cleaned flags: each entry
\* of x[0] is sign * (K - that average) * LENGTH.
C21_AveragePerPlane ==
    fit_pc = "returned" =>
        LET x == Value(fit_input)
            k == Cleaned(magnet_df, x.plane, "K")
            sign == IF x.plane = "X" THEN magnet_df.headers.POLARITY
                    ELSE -magnet_df.headers.POLARITY
        IN  \A i \in 1..Len(k) :
               x.x0[i] = RMul(RMul(<<sign, 1>>, RSub(<<k[i], 1>>, Average(k))),
                              <<magnet_df.headers.LENGTH, 1>>)

(***************************************************************************)
(* kmod/kmod_analysis.py: chi2                                             *)
(***************************************************************************)
ChiIdle ==
    /\ chi2_args = <<>>
    /\ chi2_calls = <<>>
    /\ c2 = 0
    /\ chi2_pc = "idle"

\* a call as get_beta_waist makes it: a point x = (b, w), the two magnets with
\* their fitted average beta and its error per plane, the plane, the error
\* parameters, and one row of return_sign_for_err(8)
ChiInit ==
    /\ \E fx \in {0, 1}, fy \in {0, 2}, dx \in {0, 1}, dy \in {0, 2},
          plane \in Range(PLANES), i \in 0..(2 * NumErrorSources) :
          chi2_args =
             [x |-> <<2, 1>>,
              foc_magnet_df |-> [LENGTH |-> 6, K |-> 2, LSTAR |-> 20, AVERAGEBETAX |-> 30,
                                 AVERAGEBETAY |-> 40, ERRAVERAGEBETAX |-> fx,
                                 ERRAVERAGEBETAY |-> fy],
              def_magnet_df |-> [LENGTH |-> 7, K |-> 3, LSTAR |-> 25, AVERAGEBETAX |-> 50,
                                 AVERAGEBETAY |-> 60, ERRAVERAGEBETAX |-> dx,
                                 ERRAVERAGEBETAY |-> dy],
              plane |-> plane,
              kmod_input_params |-> [errorL |-> 1, errorK |-> 1, misalignment |-> 1],
              sign |-> return_sign_for_err(NumErrorSources)[i]]
    /\ chi2_calls = <<>>
    /\ c2 = 0
    /\ chi2_pc = "called"

\* chi2: the two average_beta functions are called with the perturbed length,
\* strength and distance, each returns some number, and the two residuals are
\* squared and added
Chi2 ==
    /\ chi2_pc = "called"
    /\ LET a == chi2_args
           s == a.sign
           foc == a.foc_magnet_df
           def == a.def_magnet_df
           b == a.x[1]
           w == a.x[2]
           par == a.kmod_input_params
           foc_av == IF a.plane = "X" THEN foc.AVERAGEBETAX ELSE foc.AVERAGEBETAY
           foc_err == IF a.plane = "X" THEN foc.ERRAVERAGEBETAX ELSE foc.ERRAVERAGEBETAY
           def_av == IF a.plane = "X" THEN def.AVERAGEBETAX ELSE def.AVERAGEBETAY
       IN  \E f \in {35, 37}, d \in {55, 58} :
              /\ chi2_calls' =
                    [average_beta_focussing_quadrupole |->
                        [args |-> <<b, w, foc.LENGTH + s[0] * par.errorL,
                                    foc.K + s[1] * par.errorK * foc.K,
                                    foc.LSTAR + s[2] * par.misalignment>>,
                         value |-> f],
                     average_beta_defocussing_quadrupole |->
                        [args |-> <<b, -w, def.LENGTH + s[4] * par.errorL,
                                    def.K + s[5] * par.errorK * def.K,
                                    def.LSTAR + s[6] * par.misalignment>>,
                         value |-> d]]
              /\ c2' = (f - foc_av + s[3] * foc_err) * (f - foc_av + s[3] * foc_err)
                       + (d - def_av + s[7] * foc_err) * (d - def_av + s[7] * foc_err)
    /\ chi2_pc' = "returned"
    /\ UNCHANGED chi2_args
    /\ UNCHANGED <<corrVars, measVars, mavVars, kmodVars, betaVars, nbpmVars, fitVars, uncVars, tiltVars>>

ChiNext ==
    \/ Chi2

\* the headers of a magnet for the plane of the call
C22_AvBeta(df) == IF chi2_args.plane = "X" THEN df.AVERAGEBETAX ELSE df.AVERAGEBETAY

C22_AvBetaErr(df) ==
    IF chi2_args.plane = "X" THEN df.ERRAVERAGEBETAX ELSE df.ERRAVERAGEBETAY

\* C22: in chi2 each magnet's residual is perturbed by that magnet's own fitted
\* average-beta error: slot 3 of the sign row shifts the focusing term by the
\* focusing magnet's error, slot 7 shifts the defocusing term by the defocusing
\* magnet's error, so the value for a row with only slot 7 set does not depend on
\* the focusing magnet's error.
C22_OwnError ==
    chi2_pc = "returned" =>
        LET s == chi2_args.sign
            f == chi2_calls.average_beta_focussing_quadrupole.value
            d == chi2_calls.average_beta_defocussing_quadrupole.value
            foc_res == f - C22_AvBeta(chi2_args.foc_magnet_df)
                         + s[3] * C22_AvBetaErr(chi2_args.foc_magnet_df)
            def_res == d - C22_AvBeta(chi2_args.def_magnet_df)
                         + s[7] * C22_AvBetaErr(chi2_args.def_magnet_df)
        IN  c2 = foc_res * foc_res + def_res * def_res

(***************************************************************************)
(* optics_measurements/beta_from_phase.py: _assign_uncertainties alone     *)
(***************************************************************************)
\* lattices of NumLattice elements: every K1L set, or every second one
LatticeTables ==
    {[i \in 1..NumLattice |-> [NAME |-> i, K1L |-> 1]],
     [i \in 1..NumLattice |-> [NAME |-> i, K1L |-> i % 2]]}

\* rows of the error definitions: a pattern, given by the elements it matches, with
\* a field error, a transverse misalignment, or a longitudinal misalignment of a
\* quadrupole or of a BPM
PatternRows ==
    {[mask |-> m, dK1 |-> v[1], dX |-> v[2], dS |-> v[3], MAINFIELD |-> v[4]] :
        m \in SUBSET (1..NumLattice),
        v \in {<<1, 0, 0, "QUAD">>, <<0, 1, 0, "SEXT">>, <<0, 0, 1, "QUAD">>,
               <<0, 0, 1, "BPM">>}}

UncIdle ==
    /\ unc_twiss_full = <<>>
    /\ unc_errdefs = <<>>
    /\ unc_return = <<>>
    /\ unc_pc = "idle"

UncInit ==
    /\ unc_twiss_full \in LatticeTables
    /\ unc_errdefs = <<>>
    /\ unc_return = <<>>
    /\ unc_pc = "called"

\* _assign_uncertainties(twiss_full, errordefspath) with the table tfs.read gives
AssignUncertainties ==
    /\ unc_pc = "called"
    /\ \E errdefs \in SeqsUpTo(PatternRows, MaxPatterns) :
          /\ unc_errdefs' = errdefs
          /\ unc_return' = _assign_uncertainties(unc_twiss_full, errdefs)
    /\ unc_pc' = "returned"
    /\ UNCHANGED unc_twiss_full
    /\ UNCHANGED <<corrVars, measVars, mavVars, kmodVars, betaVars, nbpmVars, fitVars, chiVars, tiltVars>>

UncNext ==
    \/ AssignUncertainties

(***************************************************************************)
(* Claims about _assign_uncertainties                                      *)
(***************************************************************************)
\* the rows of the error definitions that match element i
C23_Matching(i) == {r \in 1..Len(unc_errdefs) : i \in unc_errdefs[r].mask}

RECURSIVE C23_SumOfDx(_)
C23_SumOfDx(rows) ==
    IF rows = {} THEN 0
    ELSE LET r == CHOOSE r \in rows : TRUE
         IN  2 * unc_errdefs[r].dX + C23_SumOfDx(rows \ {r})

\* C23: in _assign_uncertainties dX is additive across patterns: an element
\* matched by several rows of the error definitions ends with dX equal to the sum
\* of 2 x (the row's dX) over all rows that match it, whatever the order of the
\* rows; an element matched by no row keeps dX = 0.
C23_DxAdditive ==
    unc_pc = "returned" =>
        \A k \in 1..Len(unc_return) :
            unc_return[k].dX = C23_SumOfDx(C23_Matching(unc_return[k].NAME))

\* the element that circularly follows, and the one that circularly precedes
C24_Following(i) == (i % NumLattice) + 1

C25_Preceding(i) == ((i + NumLattice - 2) % NumLattice) + 1

\* a column of an element in the returned table, 0 for an element not returned
\* (an element with a non-zero term was matched, and is returned)
C24_Term(i, col) ==
    IF \E k \in 1..Len(unc_return) : unc_return[k].NAME = i
    THEN unc_return[CHOOSE k \in 1..Len(unc_return) : unc_return[k].NAME = i][col]
    ELSE 0

C25_PrecedingElement ==
    unc_pc = "returned" =>
        \A q \in 1..NumLattice :
            C24_Term(q, "KdS") # 0 =>
                /\ \E k \in 1..Len(unc_return) : unc_return[k].NAME = C25_Preceding(q)
                /\ C24_Term(C25_Preceding(q), "mKdS") = C24_Term(q, "KdS")

(***************************************************************************)
(* optics_measurements/beta_from_phase.py: three_bpm_method,               *)
(* _tilt_slice_matrix                                                      *)
(***************************************************************************)
\* the literals of the three calls _tilt_slice_matrix(..., 2, 5, ...)
SliceShift == 2

SliceWidth == 5

\* _tilt_slice_matrix: the matrix as the two in-place additions leave it, and the
\* array returned
_tilt_slice_matrix(matrix, slice_shift, slice_width, tune) ==
    LET n == Cardinality(DOMAIN matrix)
        invrange == [i \in 0..(n - 1) |-> n - 1 - i]
        \* matrix[n - slice_shift:, :slice_shift] += tune
        added == [b \in 0..(n - 1) |-> [c \in 0..(n - 1) |->
                     IF b >= n - slice_shift /\ c < slice_shift
                     THEN matrix[b][c] + tune ELSE matrix[b][c]]]
        \* matrix[:slice_shift, n - slice_shift:] -= tune
        subtracted == [b \in 0..(n - 1) |-> [c \in 0..(n - 1) |->
                          IF b < slice_shift /\ c >= n - slice_shift
                          THEN added[b][c] - tune ELSE added[b][c]]]
        \* scipy.linalg.circulant(invrange): first column invrange
        circulant == [i \in 0..(n - 1) |-> [j \in 0..(n - 1) |-> invrange[(i - j) % n]]]
        \* circulant(invrange)[invrange]
        index == [i \in 0..(n - 1) |-> circulant[invrange[i]]]
        \* matrix[np.arange(n), index]
        taken == [i \in 0..(n - 1) |-> [j \in 0..(n - 1) |-> subtracted[j][index[i][j]]]]
        \* np.roll(..., slice_shift, axis=0)
        rolled == [r \in 0..(n - 1) |-> taken[(r - slice_shift) % n]]
        width == IF slice_width < n THEN slice_width ELSE n
    IN  [matrix |-> subtracted, return |-> [r \in 0..(width - 1) |-> rolled[r]]]

\* phase matrices of a ring of n BPMs: entry [b][c] is the advance from BPM b to
\* BPM c for BPMs at the given places, counted in hundredths of a turn
PhaseMatrix(n, place) == [b \in 0..(n - 1) |-> [c \in 0..(n - 1) |-> place[c] - place[b]]]

Phases ==
    UNION {[MEAS : {PhaseMatrix(n, [b \in 0..(n - 1) |-> 10 * b]),
                    PhaseMatrix(n, [b \in 0..(n - 1) |-> 10 * b + b * b])},
            MODEL : {PhaseMatrix(n, [b \in 0..(n - 1) |-> 10 * b]),
                     PhaseMatrix(n, [b \in 0..(n - 1) |-> 11 * b])},
            ERRMEAS : {[b \in 0..(n - 1) |-> [c \in 0..(n - 1) |-> 1]],
                       [b \in 0..(n - 1) |-> [c \in 0..(n - 1) |-> 1 + ((b + c) % 2)]]}] :
           n \in SliceWidth..MaxRing}

TiltIdle ==
    /\ phase = <<>>
    /\ phase_given = <<>>
    /\ values_is_view = FALSE
    /\ tunes = <<0, 0>>
    /\ tilted = <<>>
    /\ tilt_pc = "idle"

TiltInit ==
    /\ phase \in Phases
    /\ phase_given = phase
    /\ values_is_view \in BOOLEAN
    /\ tunes \in {<<28, 31>>, <<31, 31>>}
    /\ tilted = <<>>
    /\ tilt_pc = "caller"

\* a call three_bpm_method(phase, plane, meas_and_mdl_tunes, beta_df): the three
\* calls of _tilt_slice_matrix on phase[...].values; the betas and alphas are
\* computed from the three tilted arrays and the model columns of beta_df
ThreeBpmCall ==
    /\ tilt_pc = "caller"
    /\ Len(tilted) < MaxCalls
    /\ LET tune == tunes[1]
           mdltune == tunes[2]
           meas == _tilt_slice_matrix(phase.MEAS, SliceShift, SliceWidth, tune)
           mdl == _tilt_slice_matrix(phase.MODEL, SliceShift, SliceWidth, mdltune)
           errmeas == _tilt_slice_matrix(phase.ERRMEAS, SliceShift, SliceWidth, mdltune)
       IN  /\ tilted' = Append(tilted, [tilted_meas |-> meas.return,
                                        tilted_model |-> mdl.return,
                                        tilted_errmeas |-> errmeas.return])
           /\ phase' = IF values_is_view
                       THEN [MEAS |-> meas.matrix, MODEL |-> mdl.matrix,
                             ERRMEAS |-> errmeas.matrix]
                       ELSE phase
    /\ UNCHANGED <<phase_given, values_is_view, tunes, tilt_pc>>
    /\ UNCHANGED <<corrVars, measVars, mavVars, kmodVars, betaVars, nbpmVars, fitVars, chiVars,
                   uncVars>>

TiltNext ==
    \/ ThreeBpmCall

(***************************************************************************)
(* Claims about three_bpm_method and _tilt_slice_matrix                    *)
(***************************************************************************)
\* the tune added, subtracted or neither by where b + r - 2 falls
C26_Adjustment(n, b, r, tune) ==
    IF b + r - 2 >= n THEN tune ELSE IF b + r - 2 < 0 THEN -tune ELSE 0

\* a tilted array is the five rows the claim describes of the matrix given
C26_Neighbourhood(array, matrix, tune) ==
    LET n == Cardinality(DOMAIN matrix)
    IN  /\ DOMAIN array = 0..4
        /\ \A r \in 0..4 : \A b \in 0..(n - 1) :
              array[r][b] = matrix[b][(b + r - 2) % n] + C26_Adjustment(n, b, r, tune)

\* C26: for a ring of n >= 5 BPMs, _tilt_slice_matrix(matrix, 2, 5, tune) as used
\* by three_bpm_method returns 5 rows in which row r (0..4), column b is
\* matrix[b, (b + r - 2) mod n], with the tune added exactly when b + r - 2 >= n,
\* subtracted exactly when b + r - 2 < 0, and no adjustment otherwise.
C26_TiltedRows ==
    Len(tilted) >= 1 =>
        /\ C26_Neighbourhood(tilted[1].tilted_meas, phase_given.MEAS, tunes[1])
        /\ C26_Neighbourhood(tilted[1].tilted_model, phase_given.MODEL, tunes[2])
        /\ C26_Neighbourhood(tilted[1].tilted_errmeas, phase_given.ERRMEAS, tunes[2])

\* C27: three_bpm_method leaves the caller's phase matrices unchanged: after the
\* call every entry of phase['MEAS'], phase['MODEL'] and phase['ERRMEAS'] equals
\* its value before the call, so a second call on the same dictionary computes
\* its betas and alphas from the same tilted arrays as the first.
C27_PhaseUnchanged ==
    /\ phase = phase_given
    /\ \A k \in 1..Len(tilted) : tilted[k] = tilted[1]

\* correct()
Init == CorrInit /\ MeasIdle /\ MavIdle /\ KmodIdle /\ BetaIdle /\ NbpmIdle /\ FitIdle /\ ChiIdle /\ UncIdle /\ TiltIdle

Next == CorrNext

Spec == Init /\ [][Next]_vars

\* _get_measurment_data on its own
InitMeas == MeasInit /\ CorrIdle /\ MavIdle /\ KmodIdle /\ BetaIdle /\ NbpmIdle /\ FitIdle /\ ChiIdle /\ UncIdle /\ TiltIdle

SpecMeas == InitMeas /\ [][MeasNext]_vars

\* get_moving_average on its own
InitMav == MavInit /\ CorrIdle /\ MeasIdle /\ KmodIdle /\ BetaIdle /\ NbpmIdle /\ FitIdle /\ ChiIdle /\ UncIdle /\ TiltIdle

SpecMav == InitMav /\ [][MavNext]_vars

\* the functions of kmod_analysis, one call each
InitKmod == KmodInit /\ CorrIdle /\ MeasIdle /\ MavIdle /\ BetaIdle /\ NbpmIdle /\ FitIdle /\ ChiIdle /\ UncIdle /\ TiltIdle

SpecKmod == InitKmod /\ [][KmodNext]_vars

\* beta_from_phase.calculate
InitBeta == BetaInit /\ CorrIdle /\ MeasIdle /\ MavIdle /\ KmodIdle /\ NbpmIdle /\ FitIdle /\ ChiIdle /\ UncIdle /\ TiltIdle

SpecBeta == InitBeta /\ [][BetaNext]_vars

\* beta_from_phase.n_bpm_method
InitNbpm ==
    NbpmInit /\ CorrIdle /\ MeasIdle /\ MavIdle /\ KmodIdle /\ BetaIdle /\ FitIdle /\ ChiIdle /\ UncIdle /\ TiltIdle

SpecNbpm == InitNbpm /\ [][NbpmNext]_vars

\* kmod_analysis: calc_tune, calc_k, return_fit_input
InitFit ==
    FitInit /\ CorrIdle /\ MeasIdle /\ MavIdle /\ KmodIdle /\ BetaIdle /\ NbpmIdle /\ ChiIdle /\ UncIdle /\ TiltIdle

SpecFit == InitFit /\ [][FitNext]_vars

\* kmod_analysis.chi2
InitChi ==
    ChiInit /\ CorrIdle /\ MeasIdle /\ MavIdle /\ KmodIdle /\ BetaIdle /\ NbpmIdle /\ FitIdle /\ UncIdle /\ TiltIdle

SpecChi == InitChi /\ [][ChiNext]_vars

\* beta_from_phase._assign_uncertainties on its own
InitUnc ==
    UncInit /\ CorrIdle /\ MeasIdle /\ MavIdle /\ KmodIdle /\ BetaIdle /\ NbpmIdle /\ FitIdle /\ ChiIdle /\ TiltIdle

SpecUnc == InitUnc /\ [][UncNext]_vars

\* beta_from_phase.three_bpm_method
InitTilt ==
    TiltInit /\ CorrIdle /\ MeasIdle /\ MavIdle /\ KmodIdle /\ BetaIdle /\ NbpmIdle /\ FitIdle /\ ChiIdle /\ UncIdle

SpecTilt == InitTilt /\ [][TiltNext]_vars

====
